---- MODULE Spec2Model ----
(***************************************************************************)
(* Recommendation scoring and re-ranking core of the nexttrack repository: *)
(* SimilarityEngine (pairwise similarity, top-K retrieval with cache and   *)
(* precomputed TrackSimilarity rows), the two DiversityOptimizer MMR       *)
(* implementations, HybridRecommendationEngine and the weights kept in     *)
(* UserRecommendationPreferences.                                          *)
(*                                                                         *)
(* Numbers.  Python floats are modelled in fixed point:                    *)
(*   feature values      tenths      (0..10  for 0.0..1.0)                 *)
(*   similarities/scores per-mille   (0..1000 for 0.0..1.0)                *)
(*   lambda, diversity   tenths                                            *)
(*   source weights      a numerator over the weights' common denominator  *)
(* Products keep the exact unit of their factors; the only roundings are   *)
(* the floors of a division (cosine, tag similarity, play-count ratio).    *)
(***************************************************************************)
EXTENDS Integers, Sequences, FiniteSets, TLC

VARIABLES
    features,    \* track id -> SimpleTrackFeatures row (tracks without a row are not in the domain)
    artist,      \* track id -> artist id            (Track.artist)
    artistPlaycount, \* artist id -> play count     (Artist.playcount)
    playcount,   \* track id -> play count           (Track.playcount)
    recent,      \* track id -> fetched_at within the last 30 days
    hashOrder,   \* iteration order of a Python set of tag strings in this process
    dbOrder,     \* order in which the database returns rows that tie in ORDER BY
    jobs,        \* worker -> the precalculate_similarities run it is in, and its position
    simStore,    \* the TrackSimilarity table
    cache,       \* django cache: key -> cached find_similar_tracks result
    prefs,       \* the user's UserRecommendationPreferences row
    mmrIn,       \* arguments of the apply_mmr call under study
    mmrOut,      \* what apply_mmr returned
    tkOut,       \* last find_similar_tracks / precalculate_similarities call and its return value
    recOut       \* last HybridRecommendationEngine.recommend call and its return value

vars == <<features, artist, artistPlaycount, playcount, recent, hashOrder, dbOrder, jobs, simStore, cache,
          prefs, mmrIn, mmrOut, tkOut, recOut>>

-----------------------------------------------------------------------------
(* Bounds of the model *)

\* longest candidate list handed to apply_mmr
MaxCand == 3
\* largest num_results / limit argument
MaxResults == 3
\* largest small limit of find_similar_tracks (the limit 10 is always tried too)
MaxK == 2

-----------------------------------------------------------------------------
(* Generic helpers *)

Min2(a, b) == IF a <= b THEN a ELSE b
Max2(a, b) == IF a >= b THEN a ELSE b

\* Python seq[:n]
PySlice(seq, n) ==
    IF n >= 0 THEN SubSeq(seq, 1, Min2(n, Len(seq)))
    ELSE SubSeq(seq, 1, Max2(0, Len(seq) + n))

\* seq with the element at position i removed (list.pop(i))
RemoveAt(seq, i) == SubSeq(seq, 1, i - 1) \o SubSeq(seq, i + 1, Len(seq))

RECURSIVE SumSeq(_)
SumSeq(seq) == IF seq = <<>> THEN 0 ELSE Head(seq) + SumSeq(Tail(seq))

SeqToSet(seq) == {seq[i] : i \in 1..Len(seq)}

\* list.sort(key=lambda x: x[1], reverse=True): stable, descending by the score x[2]
RECURSIVE InsertDesc(_, _)
InsertDesc(sorted, x) ==
    IF sorted = <<>> THEN <<x>>
    ELSE IF Head(sorted)[2] >= x[2] THEN <<Head(sorted)>> \o InsertDesc(Tail(sorted), x)
         ELSE <<x>> \o sorted

RECURSIVE StableSortDesc(_)
StableSortDesc(seq) ==
    IF seq = <<>> THEN <<>>
    ELSE InsertDesc(StableSortDesc(SubSeq(seq, 1, Len(seq) - 1)), seq[Len(seq)])

\* ORDER BY key DESC over the rows S: key and pos are functions on S, pos the
\* database's order among rows with equal keys
RECURSIVE OrderByDesc(_, _, _)
OrderByDesc(S, key, pos) ==
    IF S = {} THEN <<>>
    ELSE LET x == CHOOSE y \in S :
                     \A z \in S : key[y] > key[z] \/ (key[y] = key[z] /\ pos[y] <= pos[z])
         IN <<x>> \o OrderByDesc(S \ {x}, key, pos)

\* floor of the square root (math.sqrt / np.linalg.norm in fixed point)
RECURSIVE ISqrtIter(_, _)
ISqrtIter(n, x) ==
    LET y == (x + n \div x) \div 2
    IN IF y >= x THEN x ELSE ISqrtIter(n, y)
ISqrt(n) == IF n = 0 THEN 0 ELSE ISqrtIter(n, Min2(n, 46340))

Dot(u, v) == SumSeq([i \in 1..Len(u) |-> u[i] * v[i]])

\* cosine of two feature vectors in per-mille; 0 when either norm is 0
CosPermille(u, v) ==
    LET n1 == Dot(u, u)
        n2 == Dot(v, v)
    IN IF n1 = 0 \/ n2 = 0 THEN 0
       ELSE (50000 * Dot(u, v)) \div ISqrt(n1 * n2 * 2500)

-----------------------------------------------------------------------------
(* The catalog *)

Tracks == 1..8

Tags == {"rock", "pop", "jazz", "upbeat", "mellow"}

HasFeatures(t) == t \in DOMAIN features

\* SimpleTrackFeatures.get_feature_vector
get_feature_vector(f) ==
    <<f.energy, f.valence, f.tempo_normalized, f.danceability, f.acousticness,
      f.popularity_score>>

\* position of tag x in the set iteration order `order`
HashPos(x, order) == CHOOSE i \in 1..Len(order) : order[i] = x

\* the elements of set S as a list, in the set iteration order `order`
RECURSIVE SetToList(_, _)
SetToList(S, order) ==
    IF S = {} THEN <<>>
    ELSE LET x == CHOOSE y \in S : \A z \in S : HashPos(y, order) <= HashPos(z, order)
         IN <<x>> \o SetToList(S \ {x}, order)

\* SimpleTrackFeatures.get_all_tags: list(set(genre_tags + mood_tags))
get_all_tags(f, order) == SetToList(SeqToSet(f.genre_tags \o f.mood_tags), order)

Feat(e, v, t, d, a, p, g, m) ==
    [energy |-> e, valence |-> v, tempo_normalized |-> t, danceability |-> d,
     acousticness |-> a, popularity_score |-> p, genre_tags |-> g, mood_tags |-> m]

\* rows of SimpleTrackFeatures in the initial catalog; track 5 has none
InitFeatures ==
    ( 1 :> Feat(5, 5, 5, 4, 3, 0,    <<"rock">>, <<"upbeat">>) ) @@
    ( 2 :> Feat(10, 10, 10, 10, 0, 0, <<"rock">>, <<"upbeat">>) ) @@
    ( 3 :> Feat(1, 1, 0, 0, 0, 10,   <<"jazz">>, <<"mellow">>) ) @@
    ( 4 :> Feat(6, 5, 5, 2, 3, 2,    <<"rock", "pop">>, <<"mellow">>) ) @@
    ( 6 :> Feat(2, 8, 1, 6, 9, 3,    <<"pop">>, <<"upbeat">>) ) @@
    ( 7 :> Feat(0, 0, 1, 0, 9, 8,    <<"jazz">>, <<>>) ) @@
    ( 8 :> Feat(5, 5, 5, 4, 3, 0,    <<>>, <<>>) )

InitArtist == <<1, 2, 3, 1, 4, 2, 2, 4>>

InitPlaycount == <<500, 1000, 1000, 300, 700, 100, 400, 0>>

\* Artist.playcount of the four artists
InitArtistPlaycount == <<400000, 0, 2000000, 40000>>

InitRecent == <<TRUE, FALSE, TRUE, TRUE, FALSE, TRUE, FALSE, TRUE>>

\* the database's physical row order: by ascending or by descending primary key
DbOrders == { <<1, 2, 3, 4, 5, 6, 7, 8>>, <<8, 7, 6, 5, 4, 3, 2, 1>> }

HashOrders ==
    { <<"rock", "pop", "jazz", "upbeat", "mellow">>,
      <<"mellow", "upbeat", "jazz", "pop", "rock">> }

-----------------------------------------------------------------------------
(* TagAnalyzer (services/feature_extraction.py) *)

\* weight of the tag at 1-based position i, in sixtieths: 1.0 / (i + 1) for 0-based i
TagWeight(i) == 60 \div i

\* TagAnalyzer.get_tag_weights: tag -> weight (a later duplicate overwrites)
get_tag_weights(tags) ==
    [x \in SeqToSet(tags) |->
        LET last == CHOOSE i \in 1..Len(tags) :
                        tags[i] = x /\ \A j \in 1..Len(tags) : tags[j] = x => j <= i
        IN TagWeight(last)]

RECURSIVE SumOver(_, _)
SumOver(f, S) ==
    IF S = {} THEN 0
    ELSE LET x == CHOOSE y \in S : TRUE IN f[x] + SumOver(f, S \ {x})

\* TagAnalyzer.weighted_tag_similarity, per-mille
weighted_tag_similarity(tags1, tags2) ==
    IF tags1 = <<>> \/ tags2 = <<>> THEN 0
    ELSE LET w1 == get_tag_weights(tags1)
             w2 == get_tag_weights(tags2)
             common == DOMAIN w1 \cap DOMAIN w2
             sim == SumOver([x \in common |-> Min2(w1[x], w2[x])], common)
             max_weight == Min2(SumOver(w1, DOMAIN w1), SumOver(w2, DOMAIN w2))
         IN IF common = {} THEN 0
            ELSE IF max_weight = 0 THEN 0
            ELSE (1000 * sim) \div max_weight

-----------------------------------------------------------------------------
(* SimilarityEngine: pairwise similarity (services/similarity_engine.py) *)

\* _calculate_audio_similarity: (cosine + 1) / 2, here in units of 1/2000
calculate_audio_similarity(fa, fb) ==
    CosPermille(get_feature_vector(fa), get_feature_vector(fb)) + 1000

\* _calculate_tag_similarity, per-mille
calculate_tag_similarity(fa, fb, order) ==
    weighted_tag_similarity(get_all_tags(fa, order), get_all_tags(fb, order))

\* _calculate_popularity_similarity: 1 - |pop_a - pop_b|, per-mille
calculate_popularity_similarity(fa, fb) ==
    LET d == fa.popularity_score - fb.popularity_score
    IN 1000 - 100 * (IF d >= 0 THEN d ELSE -d)

\* mutant: the audio term enters as cosine + 1, without the division by 2
CombinedSimilarity_unhalved(fa, fb, order) ==
    (6 * calculate_audio_similarity(fa, fb)
     + 3 * calculate_tag_similarity(fa, fb, order)
     + calculate_popularity_similarity(fa, fb)) \div 10

\* the weighted combination of calculate_track_similarity for two feature rows:
\* 0.6 audio + 0.3 tag + 0.1 popularity, per-mille
CombinedSimilarity(fa, fb, order) ==
    (3 * calculate_audio_similarity(fa, fb)
     + 3 * calculate_tag_similarity(fa, fb, order)
     + calculate_popularity_similarity(fa, fb)) \div 10

\* the feature rows of the initial catalog, and the values of the similarity
\* functions on them (evaluated once; any other row is computed on use)
KnownFeatures == {InitFeatures[t] : t \in DOMAIN InitFeatures}

CombinedTable ==
    [fa \in KnownFeatures, fb \in KnownFeatures, order \in HashOrders |->
        CombinedSimilarity(fa, fb, order)]

CosTable ==
    [fa \in KnownFeatures, fb \in KnownFeatures |->
        CosPermille(get_feature_vector(fa), get_feature_vector(fb))]

\* calculate_track_similarity returns None exactly when a track has no features
SimIsNone(a, b) == ~HasFeatures(a) \/ ~HasFeatures(b)

\* calculate_track_similarity when it is not None, per-mille
calculate_track_similarity(a, b) ==
    LET fa == features[a]
        fb == features[b]
    IN IF fa \in KnownFeatures /\ fb \in KnownFeatures /\ hashOrder \in HashOrders
       THEN CombinedTable[fa, fb, hashOrder]
       ELSE CombinedSimilarity(fa, fb, hashOrder)

\* _cosine_similarity of two tracks' feature vectors (diversity_optimizer.py), per-mille
cosine_similarity(t1, t2) ==
    LET f1 == features[t1]
        f2 == features[t2]
    IN IF f1 \in KnownFeatures /\ f2 \in KnownFeatures THEN CosTable[f1, f2]
       ELSE CosPermille(get_feature_vector(f1), get_feature_vector(f2))

-----------------------------------------------------------------------------
(* DiversityOptimizer of services/diversity_optimizer.py *)

\* _get_track_genres
get_track_genres(t) == IF HasFeatures(t) THEN SeqToSet(features[t].genre_tags) ELSE {}

\* _calculate_similarity, per-mille
DO_calculate_similarity(t1, t2) ==
    IF artist[t1] = artist[t2] THEN 800
    ELSE IF HasFeatures(t1) /\ HasFeatures(t2)
         THEN cosine_similarity(t1, t2)
         ELSE LET g1 == get_track_genres(t1)
                  g2 == get_track_genres(t2)
              IN IF g1 # {} /\ g2 # {}
                 THEN (1000 * Cardinality(g1 \cap g2)) \div Cardinality(g1 \cup g2)
                 ELSE 100

\* the scan "if score > best_score: best_score = score; best_idx = idx" from position i on
RECURSIVE ArgBest(_, _, _, _)
ArgBest(scores, i, bestScore, bestIdx) ==
    IF i > Len(scores) THEN bestIdx
    ELSE IF scores[i] > bestScore THEN ArgBest(scores, i + 1, scores[i], i)
         ELSE ArgBest(scores, i + 1, bestScore, bestIdx)

\* max(candidates, key=score): the first element with the greatest score
FirstMaxIdx(scores) == ArgBest(scores, 2, scores[1], 1)

\* mutant: every element equal to x is dropped
ListRemove_every(seq, x) ==
    SelectSeq(seq, LAMBDA e : e # x)

\* list.remove(x): drop the first element equal to x
ListRemove(seq, x) ==
    RemoveAt(seq, CHOOSE i \in 1..Len(seq) : seq[i] = x /\ \A j \in 1..(i - 1) : seq[j] # x)

RECURSIVE MaxSimTo(_, _, _)
MaxSimTo(t, selected, acc) ==
    IF selected = <<>> THEN acc
    ELSE MaxSimTo(t, Tail(selected), Max2(acc, DO_calculate_similarity(t, Head(selected)[1])))

\* MMR score of a candidate, units of 1/10000: lambda * rel - (1 - lambda) * max_sim
DO_mmr_score(c, selected, lam) == lam * c[2] - (10 - lam) * MaxSimTo(c[1], selected, 0)

\* the while loop of _mmr_optimization
RECURSIVE DO_mmr_loop(_, _, _)
DO_mmr_loop(selected, candidates, lam) ==
    IF candidates = <<>> THEN selected
    ELSE LET scores == [i \in 1..Len(candidates) |-> DO_mmr_score(candidates[i], selected, lam)]
             best_item == candidates[FirstMaxIdx(scores)]
         IN DO_mmr_loop(Append(selected, best_item), ListRemove(candidates, best_item), lam)

\* _mmr_optimization
mmr_optimization(recommendations, lam) ==
    IF recommendations = <<>> THEN <<>>
    ELSE LET first_item ==
                 recommendations[FirstMaxIdx([i \in 1..Len(recommendations) |->
                                                 recommendations[i][2]])]
         IN DO_mmr_loop(<<first_item>>, ListRemove(recommendations, first_item), lam)

\* mutant: the optimized list is returned without the slice to num_results
DO_apply_mmr_unsliced(candidates, lam, num_results) ==
    IF candidates = <<>> THEN <<>> ELSE mmr_optimization(candidates, lam)

\* DiversityOptimizer.apply_mmr (diversity_optimizer.py)
DO_apply_mmr(candidates, lam, num_results) ==
    IF candidates = <<>> THEN <<>>
    ELSE PySlice(mmr_optimization(candidates, lam), Min2(num_results, Len(candidates)))

-----------------------------------------------------------------------------
(* DiversityOptimizer of services/similarity_engine.py *)

RECURSIVE MinSimTo(_, _, _)
MinSimTo(t, selected, acc) ==
    IF selected = <<>> THEN acc
    ELSE LET s == Head(selected)[1]
         IN MinSimTo(t, Tail(selected),
                     IF SimIsNone(t, s) THEN acc
                     ELSE Min2(acc, calculate_track_similarity(t, s)))

\* lambda * relevance + (1 - lambda) * (1 - min_sim_to_selected), units of 1/10000
SE_mmr_score(c, selected, lam) ==
    lam * c[2] + (10 - lam) * (1000 - MinSimTo(c[1], selected, 1000))

\* the while loop of apply_mmr; best_score starts at -1, best_idx at -1
RECURSIVE SE_mmr_loop(_, _, _, _)
SE_mmr_loop(selected, remaining, lam, num_results) ==
    IF ~(Len(selected) < num_results /\ remaining # <<>>) THEN selected
    ELSE LET scores == [i \in 1..Len(remaining) |-> SE_mmr_score(remaining[i], selected, lam)]
             best_idx == ArgBest(scores, 1, -10000, 0)
         IN IF best_idx >= 1
            THEN SE_mmr_loop(Append(selected, remaining[best_idx]),
                             RemoveAt(remaining, best_idx), lam, num_results)
            ELSE selected

\* DiversityOptimizer.apply_mmr (similarity_engine.py)
SE_apply_mmr(similar_tracks, lam, num_results) ==
    IF similar_tracks = <<>> THEN <<>>
    ELSE SE_mmr_loop(<<Head(similar_tracks)>>, Tail(similar_tracks), lam, num_results)

-----------------------------------------------------------------------------
(* Initial values shared by the specifications *)

DefaultPrefs ==
    [content_weight |-> 4, collaborative_weight |-> 3, popularity_weight |-> 2,
     trending_weight |-> 1, den |-> 10, saved |-> FALSE]

\* processes that run precalculate_similarities over shards of the catalog
Workers == {1, 2}

NoJobs == [w \in Workers |-> [status |-> "idle"]]

CatalogInit ==
    /\ dbOrder \in DbOrders
    /\ features = InitFeatures
    /\ artist = InitArtist
    /\ artistPlaycount = InitArtistPlaycount
    /\ playcount = InitPlaycount
    /\ recent = InitRecent

IdleInit ==
    /\ jobs = NoJobs
    /\ simStore = {}
    /\ cache = <<>>
    /\ prefs = DefaultPrefs
    /\ mmrIn = [cands |-> <<>>, lam |-> 10, n |-> 1]
    /\ mmrOut = [impl |-> "none", res |-> <<>>]
    /\ tkOut = [op |-> "none"]
    /\ recOut = [op |-> "none"]

-----------------------------------------------------------------------------
(* Specification SpecMMR: apply_mmr, both implementations, on drawn inputs *)

MMRTracks == 1..5
MMRScores == {800, 850, 900}
Lambdas == {0, 5, 7, 10}

\* lists of (track, score) pairs over distinct tracks, as find_similar_tracks returns them
CandLists ==
    UNION { { c \in [1..k -> MMRTracks \X MMRScores] :
                \A i, j \in 1..k : i # j => c[i][1] # c[j][1] } : k \in 0..MaxCand }

InitMMR ==
    /\ CatalogInit
    /\ dbOrder = <<1, 2, 3, 4, 5, 6, 7, 8>>
    /\ hashOrder = <<"rock", "pop", "jazz", "upbeat", "mellow">>
    /\ jobs = NoJobs
    /\ simStore = {}
    /\ cache = <<>>
    /\ prefs = DefaultPrefs
    /\ mmrIn \in [cands : CandLists, lam : Lambdas, n : 1..MaxResults]
    /\ mmrOut = [impl |-> "none", res |-> <<>>]
    /\ tkOut = [op |-> "none"]
    /\ recOut = [op |-> "none"]

\* DiversityOptimizer().apply_mmr(candidates, lambda_param, num_results)
ApplyMMR_DO ==
    /\ mmrOut.impl = "none"
    /\ mmrOut' = [impl |-> "do", res |-> DO_apply_mmr(mmrIn.cands, mmrIn.lam, mmrIn.n)]
    /\ UNCHANGED <<features, artist, artistPlaycount, playcount, recent, hashOrder, dbOrder, jobs, simStore,
                   cache, prefs, mmrIn, tkOut, recOut>>

\* similarity_engine.DiversityOptimizer.apply_mmr(similar_tracks, lambda_param, num_results)
ApplyMMR_SE ==
    /\ mmrOut.impl = "none"
    /\ mmrOut' = [impl |-> "se", res |-> SE_apply_mmr(mmrIn.cands, mmrIn.lam, mmrIn.n)]
    /\ UNCHANGED <<features, artist, artistPlaycount, playcount, recent, hashOrder, dbOrder, jobs, simStore,
                   cache, prefs, mmrIn, tkOut, recOut>>

NextMMR == ApplyMMR_DO \/ ApplyMMR_SE

SpecMMR == InitMMR /\ [][NextMMR]_vars

-----------------------------------------------------------------------------
(* SimilarityEngine: top-K retrieval and precomputation *)

\* the slice [:100] of _calculate_similarities_batch, scaled to the model's catalog
PoolCap == 5

\* number of entries the cache backend holds before a set evicts one
CacheCapacity == 1

DbPos(t) == CHOOSE i \in 1..Len(dbOrder) : dbOrder[i] = t

\* Track.objects.filter(simple_features__isnull=False).exclude(id=seed)[:100],
\* in the model's default ordering ["-playcount"]
CandidatePool(seed) ==
    LET S == {t \in Tracks : HasFeatures(t) /\ t # seed}
    IN PySlice(OrderByDesc(S, [t \in S |-> playcount[t]], [t \in S |-> DbPos(t)]), PoolCap)

\* _calculate_similarities_batch
RECURSIVE BatchFilter(_, _, _)
BatchFilter(seed, pool, min_similarity) ==
    IF pool = <<>> THEN <<>>
    ELSE LET t == Head(pool)
             rest == BatchFilter(seed, Tail(pool), min_similarity)
             similarity == calculate_track_similarity(seed, t)
         IN IF ~SimIsNone(seed, t) /\ similarity # 0 /\ similarity >= min_similarity
            THEN <<<<t, similarity>>>> \o rest
            ELSE rest

\* mutant: the batch is truncated without being sorted first
calculate_similarities_batch_unsorted(seed, limit, min_similarity) ==
    PySlice(BatchFilter(seed, CandidatePool(seed), min_similarity), limit)

calculate_similarities_batch(seed, limit, min_similarity) ==
    PySlice(StableSortDesc(BatchFilter(seed, CandidatePool(seed), min_similarity)), limit)

\* mutant: the stored rows are read without the combined_similarity__gte filter
get_precalculated_similarities_unfiltered(seed, limit, min_similarity) ==
    LET rows == {r \in simStore : r.track_a = seed}
        ordered == OrderByDesc(rows, [r \in rows |-> r.combined_similarity],
                               [r \in rows |-> DbPos(r.track_b)])
    IN PySlice([i \in 1..Len(ordered) |->
                   <<ordered[i].track_b, ordered[i].combined_similarity>>], limit)

\* _get_precalculated_similarities: rows with track_a = seed and combined >= min,
\* ORDER BY -combined_similarity, [:limit]
get_precalculated_similarities(seed, limit, min_similarity) ==
    LET rows == {r \in simStore : r.track_a = seed /\ r.combined_similarity >= min_similarity}
        ordered == OrderByDesc(rows, [r \in rows |-> r.combined_similarity],
                               [r \in rows |-> DbPos(r.track_b)])
    IN PySlice([i \in 1..Len(ordered) |->
                   <<ordered[i].track_b, ordered[i].combined_similarity>>], limit)

CacheKey(seed, limit, min_similarity) == <<seed, limit, min_similarity>>

\* cache.set(key, value, timeout=3600) on a backend of CacheCapacity entries:
\* the caches a set may leave behind (a full backend evicts an entry first)
CacheSet(c, key, value) ==
    IF key \in DOMAIN c \/ Cardinality(DOMAIN c) < CacheCapacity
    THEN { [k \in DOMAIN c \cup {key} |-> IF k = key THEN value ELSE c[k]] }
    ELSE { [k \in (DOMAIN c \ {gone}) \cup {key} |-> IF k = key THEN value ELSE c[k]] :
             gone \in DOMAIN c }

\* mutant: the stored rows are read from either side, a row (A, B) answering
\* for seed B too
FindResult_either_side(seed, limit, min_similarity) ==
    LET key == CacheKey(seed, limit, min_similarity)
        rows == {r \in simStore : (r.track_a = seed \/ r.track_b = seed)
                                      /\ r.combined_similarity >= min_similarity}
        other(r) == IF r.track_a = seed THEN r.track_b ELSE r.track_a
        ordered == OrderByDesc(rows, [r \in rows |-> r.combined_similarity],
                               [r \in rows |-> DbPos(other(r))])
        pre == PySlice([i \in 1..Len(ordered) |->
                           <<other(ordered[i]), ordered[i].combined_similarity>>], limit)
    IN IF key \in DOMAIN cache /\ cache[key] # <<>>
       THEN [path |-> "cache_hit", res |-> cache[key]]
       ELSE IF ~HasFeatures(seed) THEN [path |-> "no_features", res |-> <<>>]
       ELSE IF limit < 0 THEN [path |-> "raised", res |-> <<>>]
       ELSE IF pre # <<>> THEN [path |-> "precalculated", res |-> pre]
       ELSE [path |-> "computed",
             res |-> calculate_similarities_batch(seed, limit, min_similarity)]

\* find_similar_tracks: the way the call takes (path) and the list it returns (res)
FindResult(seed, limit, min_similarity) ==
    LET key == CacheKey(seed, limit, min_similarity)
        pre == get_precalculated_similarities(seed, limit, min_similarity)
    IN IF key \in DOMAIN cache /\ cache[key] # <<>>
       THEN [path |-> "cache_hit", res |-> cache[key]]
       ELSE IF ~HasFeatures(seed) THEN [path |-> "no_features", res |-> <<>>]
       \* the QuerySet slice [:limit] of _get_precalculated_similarities raises
       \* ("Negative indexing is not supported.") for a negative limit
       ELSE IF limit < 0 THEN [path |-> "raised", res |-> <<>>]
       ELSE IF pre # <<>> THEN [path |-> "precalculated", res |-> pre]
       ELSE [path |-> "computed",
             res |-> calculate_similarities_batch(seed, limit, min_similarity)]

\* find_similar_tracks: the returned list
find_similar_tracks(seed, limit, min_similarity) ==
    FindResult(seed, limit, min_similarity).res

\* find_similar_tracks: the caches the call may leave behind; r is its FindResult
FindCaches(seed, limit, min_similarity, r) ==
    IF r.path \in {"cache_hit", "no_features", "raised"} THEN {cache}
    ELSE CacheSet(cache, CacheKey(seed, limit, min_similarity), r.res)

\* the TrackSimilarity rows precalculate_similarities builds for tracks[i]
PrecalcBatch(tracks, i, batch_size, min_similarity) ==
    LET a == tracks[i]
        js == {j \in (i + 1)..Min2(i - 1 + batch_size, Len(tracks)) :
                  /\ HasFeatures(tracks[j])
                  /\ calculate_track_similarity(a, tracks[j]) # 0
                  /\ calculate_track_similarity(a, tracks[j]) >= min_similarity}
    IN IF ~HasFeatures(a) THEN {}
       ELSE { [track_a |-> a, track_b |-> tracks[j],
               cosine_similarity |->
                   calculate_audio_similarity(features[a], features[tracks[j]]) - 1000,
               tag_similarity |->
                   calculate_tag_similarity(features[a], features[tracks[j]], hashOrder),
               combined_similarity |-> calculate_track_similarity(a, tracks[j])] : j \in js }

\* bulk_create(rows, ignore_conflicts=True) under unique_together (track_a, track_b)
BulkCreate(store, rows) ==
    store \cup { r \in rows :
                   ~\E o \in store : o.track_a = r.track_a /\ o.track_b = r.track_b }

\* the loop "for i in range(total_tracks)" of precalculate_similarities from i on
RECURSIVE PrecalcStore(_, _, _, _, _)
PrecalcStore(store, tracks, i, batch_size, min_similarity) ==
    IF i > Len(tracks) THEN store
    ELSE PrecalcStore(BulkCreate(store, PrecalcBatch(tracks, i, batch_size, min_similarity)),
                      tracks, i + 1, batch_size, min_similarity)

\* the inner loop "for j in range(i + 1, min(i + batch_size, total_tracks))" from j
\* on (positions counted from 1): the positions tracks[i] is compared with, in order
RECURSIVE PrecalcInner(_, _, _, _)
PrecalcInner(tracks, i, j, stop) ==
    IF j > stop THEN <<>>
    ELSE IF ~HasFeatures(tracks[j]) THEN PrecalcInner(tracks, i, j + 1, stop)
    ELSE <<<<i, j>>>> \o PrecalcInner(tracks, i, j + 1, stop)

\* the window reaching one position further
RECURSIVE PrecalcCompared_inclusive(_, _, _)
PrecalcCompared_inclusive(tracks, i, batch_size) ==
    IF i > Len(tracks) THEN <<>>
    ELSE (IF ~HasFeatures(tracks[i]) THEN <<>>
          ELSE PrecalcInner(tracks, i, i + 1, Min2(i + batch_size, Len(tracks))))
         \o PrecalcCompared_inclusive(tracks, i + 1, batch_size)

\* the pairs of positions precalculate_similarities passes to
\* calculate_track_similarity, in the order of its two loops, from position i on
RECURSIVE PrecalcCompared(_, _, _)
PrecalcCompared(tracks, i, batch_size) ==
    IF i > Len(tracks) THEN <<>>
    ELSE (IF ~HasFeatures(tracks[i]) THEN <<>>
          ELSE PrecalcInner(tracks, i, i + 1, Min2(i - 1 + batch_size, Len(tracks))))
         \o PrecalcCompared(tracks, i + 1, batch_size)

\* comparisons_made: one per call of calculate_track_similarity
PrecalcComparisons(tracks, batch_size) == Len(PrecalcCompared(tracks, 1, batch_size))

\* similarities_stored: the rows handed to bulk_create, conflicts included
RECURSIVE PrecalcStored(_, _, _, _)
PrecalcStored(tracks, i, batch_size, min_similarity) ==
    IF i > Len(tracks) THEN 0
    ELSE Cardinality(PrecalcBatch(tracks, i, batch_size, min_similarity))
         + PrecalcStored(tracks, i + 1, batch_size, min_similarity)

-----------------------------------------------------------------------------
(* Specification SpecTopK: find_similar_tracks over the cache and the          *)
(* TrackSimilarity table, with precalculate_similarities and cache expiry      *)

FindSeeds == {1, 3, 5}
Limits == (1..MaxK) \cup {10}
MinSims == {300, 500}
PrecalcLists == { <<1, 2, 3, 4>>, <<3, 7, 1, 6>> }
BatchSizes == {2, 100}
StoreMins == {300}

InitTopK ==
    /\ CatalogInit
    /\ hashOrder = <<"rock", "pop", "jazz", "upbeat", "mellow">>
    /\ IdleInit

\* what the cache backend does during a call: it works, or its get raises, or its
\* set raises (a Redis backend that cannot be reached, settings.py CACHES)
CacheFaults == {"none", "get", "set"}

\* SimilarityEngine.find_similar_tracks(seed, limit, min_similarity), on a cache
\* backend with the given fault. Nothing in find_similar_tracks, log_cache_hit or
\* track_execution_time catches an exception: a failing cache.get raises at the
\* first cache.get, a failing cache.set at the cache.set of log_cache_hit.
FindSimilarTracks(seed, limit, min_similarity, fault) ==
    /\ LET key == CacheKey(seed, limit, min_similarity)
           cached == key \in DOMAIN cache
           cached_value == IF cached THEN cache[key] ELSE <<>>
       IN IF fault # "none"
          THEN /\ cache' = cache
               /\ tkOut' = [op |-> "find", seed |-> seed, limit |-> limit,
                            min |-> min_similarity, path |-> "raised",
                            fault |-> fault, raised |-> TRUE,
                            cached |-> cached, cached_value |-> cached_value,
                            cache_empty |-> (DOMAIN cache = {}),
                            store_empty |-> (simStore = {}),
                            res |-> <<>>]
          ELSE LET r == FindResult(seed, limit, min_similarity)
               IN /\ \E c \in FindCaches(seed, limit, min_similarity, r) : cache' = c
                  /\ tkOut' = [op |-> "find", seed |-> seed, limit |-> limit,
                               min |-> min_similarity, path |-> r.path,
                               fault |-> fault, raised |-> (r.path = "raised"),
                               cached |-> cached, cached_value |-> cached_value,
                               cache_empty |-> (DOMAIN cache = {}),
                               store_empty |-> (simStore = {}),
                               res |-> r.res]
    /\ UNCHANGED <<features, artist, artistPlaycount, playcount, recent, hashOrder, dbOrder, jobs, simStore,
                   prefs, mmrIn, mmrOut, recOut>>

\* SimilarityEngine.precalculate_similarities(tracks, batch_size, min_similarity)
PrecalculateSimilarities(tracks, batch_size, min_similarity) ==
    /\ simStore' = PrecalcStore(simStore, tracks, 1, batch_size, min_similarity)
    /\ tkOut' = [op |-> "precalc", tracks |-> tracks, batch_size |-> batch_size,
                 min |-> min_similarity,
                 compared |-> PrecalcCompared(tracks, 1, batch_size),
                 comparisons_made |-> PrecalcComparisons(tracks, batch_size),
                 similarities_stored |-> PrecalcStored(tracks, 1, batch_size, min_similarity)]
    /\ UNCHANGED <<features, artist, artistPlaycount, playcount, recent, hashOrder, dbOrder, jobs, cache,
                   prefs, mmrIn, mmrOut, recOut>>

\* a cache entry reaches its timeout
CacheExpire(key) ==
    /\ key \in DOMAIN cache
    /\ cache' = [k \in DOMAIN cache \ {key} |-> cache[k]]
    /\ UNCHANGED <<features, artist, artistPlaycount, playcount, recent, hashOrder, dbOrder, jobs, simStore,
                   prefs, mmrIn, mmrOut, tkOut, recOut>>

NextTopK ==
    \/ \E seed \in FindSeeds, limit \in Limits, m \in MinSims :
           FindSimilarTracks(seed, limit, m, "none")
    \/ \E tracks \in PrecalcLists, b \in BatchSizes, m \in StoreMins :
           PrecalculateSimilarities(tracks, b, m)
    \/ \E key \in DOMAIN cache : CacheExpire(key)

SpecTopK == InitTopK /\ [][NextTopK]_vars

-----------------------------------------------------------------------------
(* UserRecommendationPreferences and the A/B experiment configurations.      *)
(* A weight is the numerator of a fraction over the record's field den.      *)

\* the weights a form or a caller enters are tenths (step 0.1)
WeightScale == 10

WeightSum(p) ==
    p.content_weight + p.collaborative_weight + p.popularity_weight + p.trending_weight

\* normalize_weights: every weight is divided by the total when the total is
\* positive, (w / den) / (total / den) = w / total; nothing happens otherwise
normalize_weights(p) ==
    LET total == WeightSum(p)
    IN IF total > 0 THEN [p EXCEPT !.den = total] ELSE p

\* UserRecommendationPreferences.save
save(p) == [normalize_weights(p) EXCEPT !.saved = TRUE]

\* the four weights of a row being written, in tenths
PrefsRow(c, co, p, t) ==
    [content_weight |-> c, collaborative_weight |-> co, popularity_weight |-> p,
     trending_weight |-> t, den |-> WeightScale, saved |-> FALSE]

\* the variants of the experiment 'recommendation_weights', in hundredths
VariantConfigs ==
    [control   |-> [content_weight |-> 40, collaborative_weight |-> 30,
                    popularity_weight |-> 20, trending_weight |-> 10, den |-> 100],
     variant_a |-> [content_weight |-> 50, collaborative_weight |-> 30,
                    popularity_weight |-> 15, trending_weight |-> 5, den |-> 100],
     variant_b |-> [content_weight |-> 30, collaborative_weight |-> 40,
                    popularity_weight |-> 20, trending_weight |-> 10, den |-> 100]]

\* UserRecommendationPreferences.objects.create(user=..., weights): the user has no row yet
CreatePreferences(c, co, p, t) ==
    /\ ~prefs.saved
    /\ prefs' = save(PrefsRow(c, co, p, t))
    /\ UNCHANGED <<features, artist, artistPlaycount, playcount, recent, hashOrder, dbOrder, jobs, simStore,
                   cache, mmrIn, mmrOut, tkOut, recOut>>

\* the four weights of the user's row are set and the row is saved
SavePreferences(c, co, p, t) ==
    /\ prefs.saved
    /\ prefs' = save(PrefsRow(c, co, p, t))
    /\ UNCHANGED <<features, artist, artistPlaycount, playcount, recent, hashOrder, dbOrder, jobs, simStore,
                   cache, mmrIn, mmrOut, tkOut, recOut>>

\* ABTestingService.get_variant_config(user, 'recommendation_weights') for a user
\* assigned to the variant
GetVariantConfig(variant) ==
    /\ recOut' = [op |-> "variant_config", variant |-> variant,
                  config |-> VariantConfigs[variant]]
    /\ UNCHANGED <<features, artist, artistPlaycount, playcount, recent, hashOrder, dbOrder, jobs, simStore,
                   cache, prefs, mmrIn, mmrOut, tkOut>>

(* Specification SpecPrefs: preference rows written with weights in [0, 1] *)

WeightValues == {0, 2, 5, WeightScale}

InitPrefs ==
    /\ CatalogInit
    /\ hashOrder = <<"rock", "pop", "jazz", "upbeat", "mellow">>
    /\ IdleInit

NextPrefs ==
    \/ \E c \in WeightValues, co \in WeightValues, p \in WeightValues, t \in WeightValues :
           CreatePreferences(c, co, p, t)
    \/ \E c \in WeightValues, co \in WeightValues, p \in WeightValues, t \in WeightValues :
           SavePreferences(c, co, p, t)
    \/ \E variant \in DOMAIN VariantConfigs : GetVariantConfig(variant)

SpecPrefs == InitPrefs /\ [][NextPrefs]_vars

-----------------------------------------------------------------------------
(* HybridRecommendationEngine of services/hybrid_engine.py.                  *)
(* A weights dict is [w |-> function from source types to numerators,        *)
(* den |-> their common denominator]; raw scores are per-mille; a relevance  *)
(* score is a numerator over 1000 * den.                                     *)

\* seed_track=None
NoSeed == 0

\* self.default_weights
default_weights ==
    [w |-> [content_based |-> 4, collaborative |-> 3, popularity |-> 2, trending |-> 1],
     den |-> WeightScale]

\* custom_weights=None (an empty dict is as falsy)
NoCustomWeights == [w |-> <<>>, den |-> WeightScale]

\* _get_user_weights
get_user_weights ==
    IF prefs.saved
    THEN [w |-> [content_based |-> prefs.content_weight,
                 collaborative |-> prefs.collaborative_weight,
                 popularity |-> prefs.popularity_weight,
                 trending |-> prefs.trending_weight],
          den |-> prefs.den]
    ELSE default_weights

\* weights.get(source.type, 0.1)
WeightsGet(weights, type) ==
    IF type \in DOMAIN weights.w THEN weights.w[type] ELSE weights.den \div WeightScale

\* the rows of a playcount ranking with their scores playcount / max_playcount
PlaycountScores(ordered) ==
    IF ordered = <<>> THEN <<>>
    ELSE LET max_playcount == playcount[ordered[1]]
         IN [i \in 1..Len(ordered) |->
                <<ordered[i],
                  IF max_playcount > 0 THEN (1000 * playcount[ordered[i]]) \div max_playcount
                  ELSE 0>>]

\* _get_popularity_recommendations
get_popularity_recommendations(limit) ==
    PlaycountScores(PySlice(OrderByDesc(Tracks, [t \in Tracks |-> playcount[t]],
                                        [t \in Tracks |-> DbPos(t)]), limit))

\* _get_trending_recommendations: the tracks fetched in the last 30 days
get_trending_recommendations(limit) ==
    LET S == {t \in Tracks : recent[t]}
    IN PlaycountScores(PySlice(OrderByDesc(S, [t \in S |-> playcount[t]],
                                           [t \in S |-> DbPos(t)]), limit))

\* a RecommendationSource, kept only when it has results
SourceOf(type, results) ==
    IF results = <<>> THEN <<>> ELSE <<[type |-> type, results |-> results]>>

\* _gather_recommendations; content_results is what find_similar_tracks returned
gather_recommendations(seed, content_results, limit) ==
    (IF seed # NoSeed THEN SourceOf("content_based", content_results) ELSE <<>>)
    \o SourceOf("popularity", get_popularity_recommendations(limit))
    \o SourceOf("trending", get_trending_recommendations(limit))

\* the (track, score) pairs of the sources in the order the merge visits them
RECURSIVE SourceEntries(_, _)
SourceEntries(sources, weights) ==
    IF sources = <<>> THEN <<>>
    ELSE LET source == Head(sources)
             source_weight == WeightsGet(weights, source.type)
         IN [i \in 1..Len(source.results) |->
                [track |-> source.results[i][1],
                 entry |-> [type |-> source.type,
                            original_score |-> source.results[i][2],
                            weighted_score |-> source.results[i][2] * source_weight]]]
            \o SourceEntries(Tail(sources), weights)

\* mutant: a later source overwrites the score an earlier source gave the track
MergeAdd_overwrite(acc, e) ==
    IF \E i \in 1..Len(acc) : acc[i][1] = e.track
    THEN LET i == CHOOSE j \in 1..Len(acc) : acc[j][1] = e.track
         IN [acc EXCEPT ![i] = <<e.track, e.entry.weighted_score,
                                 Append(acc[i][3], e.entry)>>]
    ELSE Append(acc, <<e.track, e.entry.weighted_score, <<e.entry>>>>)

\* track_scores[track.id] += weighted_score; metadata['sources'].append(...)
MergeAdd(acc, e) ==
    IF \E i \in 1..Len(acc) : acc[i][1] = e.track
    THEN LET i == CHOOSE j \in 1..Len(acc) : acc[j][1] = e.track
         IN [acc EXCEPT ![i] = <<e.track, acc[i][2] + e.entry.weighted_score,
                                 Append(acc[i][3], e.entry)>>]
    ELSE Append(acc, <<e.track, e.entry.weighted_score, <<e.entry>>>>)

RECURSIVE MergeFold(_, _)
MergeFold(acc, entries) ==
    IF entries = <<>> THEN acc
    ELSE MergeFold(MergeAdd(acc, Head(entries)), Tail(entries))

\* _merge_recommendations: (track, final_score, sources) sorted by score, descending
merge_recommendations(sources, weights) ==
    StableSortDesc(MergeFold(<<>>, SourceEntries(sources, weights)))

\* the genre sets _calculate_diversity_score compares
genres_of(t) == IF HasFeatures(t) THEN SeqToSet(features[t].genre_tags) ELSE {}

\* similarity of two genre sets in sixths (the sets of the catalog have unions of
\* 1, 2 or 3 genres): |a & b| / |a | b|, 0.5 when either set is empty
GenreSimilarity6(a, b) ==
    IF a # {} /\ b # {} THEN (6 * Cardinality(a \cap b)) \div Cardinality(a \cup b)
    ELSE 3

\* _calculate_diversity_score in sixths: 1 - the least similarity to a selected track
RECURSIVE MinGenreSimilarity6(_, _, _)
MinGenreSimilarity6(candidate, selected, acc) ==
    IF selected = <<>> THEN acc
    ELSE MinGenreSimilarity6(candidate, Tail(selected),
             Min2(acc, GenreSimilarity6(genres_of(candidate), genres_of(Head(selected)[1]))))

calculate_diversity_score(candidate, selected) ==
    IF selected = <<>> THEN 6 ELSE 6 - MinGenreSimilarity6(candidate, selected, 6)

\* (1 - diversity_factor) * relevance + diversity_factor * diversity,
\* in units of 1 / (60000 * den)
HY_mmr_score(c, selected, d, den) ==
    (10 - d) * c[2] * 6 + d * calculate_diversity_score(c[1], selected) * den * 1000

\* the while loop of _optimize_diversity (best_score starts at -1, best_idx at -1)
RECURSIVE HY_mmr_loop(_, _, _, _)
HY_mmr_loop(selected, candidates, d, den) ==
    IF candidates = <<>> THEN selected
    ELSE LET scores == [i \in 1..Len(candidates) |->
                           HY_mmr_score(candidates[i], selected, d, den)]
             best_idx == ArgBest(scores, 1, -(60000 * den), 0)
         IN HY_mmr_loop(Append(selected, candidates[best_idx]),
                        RemoveAt(candidates, best_idx), d, den)

\* _optimize_diversity
optimize_diversity(recommendations, d, den) ==
    IF recommendations = <<>> THEN <<>>
    ELSE HY_mmr_loop(<<recommendations[1]>>, Tail(recommendations), d, den)

\* custom_weights or self._get_user_weights(user)
ResolveWeights(custom) == IF DOMAIN custom.w # {} THEN custom ELSE get_user_weights

\* recommend, after the merge: optimize when diversity_factor > 0, [:limit]
RecommendFrom(merged, limit, d, weights) ==
    PySlice(IF d > 0 THEN optimize_diversity(merged, d, weights.den) ELSE merged, limit)

\* HybridRecommendationEngine.recommend: the list a call returns in this state
recommend(seed, limit, d, custom) ==
    LET content_results ==
            IF seed # NoSeed THEN find_similar_tracks(seed, limit * 3, 500) ELSE <<>>
        sources == gather_recommendations(seed, content_results, limit * 3)
        weights == ResolveWeights(custom)
    IN RecommendFrom(merge_recommendations(sources, weights), limit, d, weights)

\* the distances of neighbouring positions only
calculate_intra_list_diversity_adjacent(tracks) ==
    IF Len(tracks) < 2 THEN [total |-> 0, count |-> 1]
    ELSE LET pairs == {<<i, j>> \in (1..Len(tracks)) \X (1..Len(tracks)) : j = i + 1}
             dist == [pr \in pairs |-> 1000 - DO_calculate_similarity(tracks[pr[1]], tracks[pr[2]])]
         IN [total |-> SumOver(dist, pairs), count |-> Cardinality(pairs)]

\* DiversityOptimizer._calculate_intra_list_diversity as the fraction total / count
\* of per-mille distances (0 for fewer than two tracks)
calculate_intra_list_diversity(tracks) ==
    IF Len(tracks) < 2 THEN [total |-> 0, count |-> 1]
    ELSE LET pairs == {<<i, j>> \in (1..Len(tracks)) \X (1..Len(tracks)) : i < j}
             dist == [pr \in pairs |-> 1000 - DO_calculate_similarity(tracks[pr[1]], tracks[pr[2]])]
         IN [total |-> SumOver(dist, pairs), count |-> Cardinality(pairs)]

(* Specification SpecHybrid: recommend over the catalog, for users with and *)
(* without a preferences row                                                *)

RecSeeds == {NoSeed, 1, 3}
RecLimits == {MaxK, 10}
DiversityFactors == {0, 3, 10}
CustomWeights ==
    { NoCustomWeights,
      [w |-> [content_based |-> 8, popularity |-> 1, trending |-> 1, collaborative |-> 0],
       den |-> WeightScale],
      [w |-> [content_based |-> WeightScale], den |-> WeightScale] }
PrefsRows == { <<5, 2, 2, 1>>, <<10, 10, 10, 10>> }

InitHybrid ==
    /\ CatalogInit
    /\ dbOrder = <<1, 2, 3, 4, 5, 6, 7, 8>>
    /\ hashOrder = <<"rock", "pop", "jazz", "upbeat", "mellow">>
    /\ IdleInit

\* HybridRecommendationEngine.recommend(user, seed, limit, diversity_factor, custom_weights)
Recommend(seed, limit, d, custom) ==
    /\ LET r == IF seed # NoSeed THEN FindResult(seed, limit * 3, 500)
                ELSE [path |-> "no_seed", res |-> <<>>]
           sources == gather_recommendations(seed, r.res, limit * 3)
           weights == ResolveWeights(custom)
           merged == merge_recommendations(sources, weights)
       IN /\ IF seed # NoSeed
             THEN \E c \in FindCaches(seed, limit * 3, 500, r) : cache' = c
             ELSE cache' = cache
          /\ recOut' = [op |-> "recommend", seed |-> seed, limit |-> limit, d |-> d,
                        custom |-> custom, weights |-> weights, sources |-> sources,
                        merged |-> merged,
                        res |-> RecommendFrom(merged, limit, d, weights)]
    /\ UNCHANGED <<features, artist, artistPlaycount, playcount, recent, hashOrder, dbOrder, jobs, simStore,
                   prefs, mmrIn, mmrOut, tkOut>>

NextHybrid ==
    \/ \E seed \in RecSeeds, limit \in RecLimits, d \in DiversityFactors, custom \in CustomWeights :
           Recommend(seed, limit, d, custom)
    \/ \E row \in PrefsRows : CreatePreferences(row[1], row[2], row[3], row[4])

SpecHybrid == InitHybrid /\ [][NextHybrid]_vars

-----------------------------------------------------------------------------
(* Claims about find_similar_tracks (SpecTopK) *)

IsNonIncreasing(res) == \A i \in 1..(Len(res) - 1) : res[i][2] >= res[i + 1][2]

\* C1: on every path (cache hit, precomputed rows, on-the-fly computation) the list
\* find_similar_tracks returns is in non-increasing score order, has at most
\* `limit` elements, and every score in it is >= min_similarity.
C1_TopKSortedBoundedThreshold ==
    tkOut.op = "find" =>
        /\ IsNonIncreasing(tkOut.res)
        /\ Len(tkOut.res) <= tkOut.limit
        /\ \A i \in 1..Len(tkOut.res) : tkOut.res[i][2] >= tkOut.min

\* a cache hit that returned two or more tracks
C1_Witness ==
    /\ tkOut.op = "find"
    /\ tkOut.path = "cache_hit"
    /\ Len(tkOut.res) >= 2

\* the candidate pool of seed, stated on its own: the tracks with features other
\* than the seed that are among the first PoolCap in the catalog's -playcount order
C2_Pool(seed) ==
    LET F == {t \in Tracks : HasFeatures(t) /\ t # seed}
        Before(u, t) == \/ playcount[u] > playcount[t]
                        \/ (playcount[u] = playcount[t] /\ DbPos(u) < DbPos(t))
    IN {t \in F : Cardinality({u \in F : Before(u, t)}) < PoolCap}

\* C2: with an empty cache and no TrackSimilarity rows, find_similar_tracks(S, k, m)
\* returns exactly the pool candidates whose similarity to S is >= m, limited to
\* the k highest-scoring ones, each with its pairwise similarity as score.
C2_ComputedIsTopKOfQualifying ==
    (tkOut.op = "find" /\ tkOut.cache_empty /\ tkOut.store_empty) =>
        LET res == tkOut.res
            seed == tkOut.seed
            Q == IF HasFeatures(seed)
                 THEN {t \in C2_Pool(seed) :
                          calculate_track_similarity(seed, t) >= tkOut.min}
                 ELSE {}
            got == {res[i][1] : i \in 1..Len(res)}
        IN /\ Len(res) = Min2(tkOut.limit, Cardinality(Q))
           /\ Cardinality(got) = Len(res)
           /\ got \subseteq Q
           /\ \A i \in 1..Len(res) :
                  res[i][2] = calculate_track_similarity(seed, res[i][1])
           /\ IsNonIncreasing(res)
           /\ \A t \in Q \ got : \A i \in 1..Len(res) :
                  res[i][2] >= calculate_track_similarity(seed, t)

\* the scenario: five candidates of descending similarity to the seed, three of
\* them at or above min_similarity 0.5, k = 10: exactly those three, in order
C2_Witness ==
    /\ tkOut.op = "find" /\ tkOut.cache_empty /\ tkOut.store_empty
    /\ tkOut.seed = 1 /\ tkOut.limit = 10 /\ tkOut.min = 500
    /\ Cardinality(C2_Pool(1)) = 5
    /\ tkOut.res = << <<2, 985>>, <<4, 866>>, <<6, 697>> >>

-----------------------------------------------------------------------------
(* Claims about apply_mmr (SpecMMR) *)

\* C3: apply_mmr (both implementations, num_results >= 1) returns a selection of
\* the input pairs, each unchanged and none repeated, of length exactly
\* min(num_results, number of candidates).
C3_MMRSelection ==
    mmrOut.impl # "none" =>
        LET res == mmrOut.res
            cands == mmrIn.cands
        IN /\ Len(res) = Min2(mmrIn.n, Len(cands))
           /\ \A i \in 1..Len(res) : res[i] \in SeqToSet(cands)
           /\ \A i, j \in 1..Len(res) : i # j => res[i] # res[j]

\* three candidates, num_results = 2: two of them come back
C3_Witness ==
    /\ mmrOut.impl = "se"
    /\ Len(mmrIn.cands) = 3
    /\ mmrIn.n = 2
    /\ Len(mmrOut.res) = 2

\* the pairwise similarity an implementation measures redundancy with
C4_Sim(impl, a, b) ==
    IF impl = "do" THEN DO_calculate_similarity(a, b)
    ELSE IF SimIsNone(a, b) THEN 0 ELSE calculate_track_similarity(a, b)

RECURSIVE C4_MaxSim(_, _, _)
C4_MaxSim(impl, t, selected) ==
    IF selected = <<>> THEN 0
    ELSE Max2(C4_Sim(impl, t, Head(selected)[1]), C4_MaxSim(impl, t, Tail(selected)))

\* lambda * relevance - (1 - lambda) * maxSimilarityToSelected, units of 1/10000
C4_Objective(impl, c, selected, lam) ==
    lam * c[2] - (10 - lam) * C4_MaxSim(impl, c[1], selected)

\* res is a greedy MMR sequence over cands
C4_IsGreedy(impl, res, cands, lam) ==
    /\ res # <<>> => \A c \in SeqToSet(cands) : res[1][2] >= c[2]
    /\ \A i \in 2..Len(res) :
          LET selected == SubSeq(res, 1, i - 1)
              remaining == SeqToSet(cands) \ SeqToSet(selected)
          IN \A c \in remaining :
                 C4_Objective(impl, res[i], selected, lam)
                     >= C4_Objective(impl, c, selected, lam)

\* C4: for any lambda and any order of the input, apply_mmr returns the greedy MMR
\* sequence: the highest-scoring candidate first, then each time the remaining
\* candidate maximizing lambda*relevance - (1-lambda)*maxSimilarityToSelected.
C4_MMRIsGreedy ==
    mmrOut.impl # "none" =>
        C4_IsGreedy(mmrOut.impl, mmrOut.res, mmrIn.cands, mmrIn.lam)

\* C5: with lambda = 1.0 apply_mmr is plain relevance ranking: for any input order
\* the output is the candidates in non-increasing score order (equal scores keep
\* their input order), truncated to num_results.
C5_LambdaOneIsRelevanceRanking ==
    (mmrOut.impl # "none" /\ mmrIn.lam = 10) =>
        mmrOut.res = PySlice(StableSortDesc(mmrIn.cands), mmrIn.n)

-----------------------------------------------------------------------------
(* Claims about recommend and the preference weights (SpecHybrid, SpecPrefs) *)

TracksOf(res) == [i \in 1..Len(res) |-> res[i][1]]

\* C6: for a fixed pool, seed, weights and limit, a greater diversity_factor never
\* gives recommend a list of smaller intra-list diversity: for every d2 >= d the
\* diversity of the list returned for d2 (same seed, limit and weights as the call
\* made) is >= that of the list returned for d.
C6_DiversityMonotone ==
    recOut.op = "recommend" =>
        \A d2 \in DiversityFactors :
            d2 >= recOut.d =>
                LET ild1 == calculate_intra_list_diversity(TracksOf(recOut.res))
                    ild2 == calculate_intra_list_diversity(
                                TracksOf(recommend(recOut.seed, recOut.limit, d2, recOut.weights)))
                IN ild2.total * ild1.count >= ild1.total * ild2.count

\* C7: after any write of the user's weights (a row created or saved with weights
\* in [0, 1]) and in every A/B variant configuration, the four weights sum to 1.
C7_WeightsSumToOne ==
    /\ prefs.saved => WeightSum(prefs) = prefs.den
    /\ recOut.op = "variant_config" => WeightSum(recOut.config) = recOut.config.den

\* C8: a recommend call without a seed returns a non-empty list (the catalog is
\* non-empty, limit >= 1) whose tracks are in non-increasing playcount order.
C8_NoSeedIsPopularityRanking ==
    (recOut.op = "recommend" /\ recOut.seed = NoSeed) =>
        /\ recOut.res # <<>>
        /\ \A i \in 1..(Len(recOut.res) - 1) :
               playcount[recOut.res[i][1]] >= playcount[recOut.res[i + 1][1]]

\* the distinct tracks the sources of a call produced
SourceTracks(sources) ==
    UNION { {sources[k].results[i][1] : i \in 1..Len(sources[k].results)} :
              k \in 1..Len(sources) }

\* C9: recommend returns at most limit entries, exactly limit when the sources
\* produced at least limit distinct tracks, and every returned score is in [0, 1],
\* whether the weights are the defaults, the user's row or custom weights.
C9_LimitAndScoreRange ==
    recOut.op = "recommend" =>
        /\ Len(recOut.res) <= recOut.limit
        /\ Cardinality(SourceTracks(recOut.sources)) >= recOut.limit
               => Len(recOut.res) = recOut.limit
        /\ \A i \in 1..Len(recOut.res) :
               /\ recOut.res[i][2] >= 0
               /\ recOut.res[i][2] <= 1000 * recOut.weights.den

\* the sources of a call in which track t appears
SourcesWith(sources, t) ==
    {k \in 1..Len(sources) : \E i \in 1..Len(sources[k].results) : sources[k].results[i][1] = t}

\* the raw score source k gave track t
RawScore(sources, k, t) ==
    LET i == CHOOSE j \in 1..Len(sources[k].results) : sources[k].results[j][1] = t
    IN sources[k].results[i][2]

\* C10: in the merged list every track of a source appears exactly once; its score
\* is the sum, over the sources holding it, of source weight * raw score (0.1 for a
\* type the weights lack); its breakdown has one (raw, weighted) entry per such
\* source, summing to the score; the absent collaborative source has no entry and
\* adds nothing; the returned entries are entries of the merged list.
C10_MergedScoresAndBreakdown ==
    recOut.op = "recommend" =>
        LET merged == recOut.merged
            sources == recOut.sources
            W(type) == IF type \in DOMAIN recOut.weights.w THEN recOut.weights.w[type]
                       ELSE recOut.weights.den \div 10
        IN /\ \A i, j \in 1..Len(merged) : merged[i][1] = merged[j][1] => i = j
           /\ {merged[i][1] : i \in 1..Len(merged)} = SourceTracks(sources)
           /\ \A i \in 1..Len(merged) :
                  LET t == merged[i][1]
                      breakdown == merged[i][3]
                      holding == SourcesWith(sources, t)
                  IN /\ Len(breakdown) = Cardinality(holding)
                     /\ \A k \in holding :
                            \E b \in 1..Len(breakdown) :
                                /\ breakdown[b].type = sources[k].type
                                /\ breakdown[b].original_score = RawScore(sources, k, t)
                                /\ breakdown[b].weighted_score =
                                       W(sources[k].type) * RawScore(sources, k, t)
                     /\ \A b \in 1..Len(breakdown) : breakdown[b].type # "collaborative"
                     /\ merged[i][2] =
                            SumSeq([b \in 1..Len(breakdown) |-> breakdown[b].weighted_score])
                     /\ merged[i][2] =
                            SumOver([k \in holding |->
                                        W(sources[k].type) * RawScore(sources, k, t)], holding)
           /\ \A i \in 1..Len(recOut.res) :
                  /\ \E m \in 1..Len(merged) : merged[m] = recOut.res[i]
                  /\ \A j \in 1..Len(recOut.res) :
                         recOut.res[i][1] = recOut.res[j][1] => i = j

\* a seeded call under weights with a positive collaborative weight, in whose merged
\* list a track is scored by all three sources
C10_Witness ==
    /\ recOut.op = "recommend"
    /\ recOut.seed # NoSeed
    /\ "collaborative" \in DOMAIN recOut.weights.w
    /\ recOut.weights.w["collaborative"] > 0
    /\ \E i \in 1..Len(recOut.merged) :
           /\ Len(recOut.merged[i][3]) = 3
           /\ recOut.merged[i][2] > 0

-----------------------------------------------------------------------------
(* Specification SpecPair: calculate_track_similarity on two tracks whose    *)
(* feature rows are drawn from PairRows (or that have no row)                *)

PairTracks == {1, 2}

\* numeric parts of the drawn rows: tenths within the validators' range [0, 1]
PairVectors ==
    { <<0, 0, 0, 0, 0, 0>>, <<5, 5, 5, 4, 3, 0>>, <<10, 10, 10, 10, 0, 0>>,
      <<1, 1, 0, 0, 0, 10>>, <<10, 10, 10, 10, 10, 10>> }
PairGenres == { <<>>, <<"rock">>, <<"rock", "pop">> }
PairMoods == { <<>>, <<"upbeat">> }

PairRows ==
    { Feat(v[1], v[2], v[3], v[4], v[5], v[6], g, m) :
          v \in PairVectors, g \in PairGenres, m \in PairMoods }

InitPair ==
    /\ \E S \in SUBSET PairTracks : features \in [S -> PairRows]
    /\ hashOrder \in HashOrders
    /\ dbOrder = <<1, 2, 3, 4, 5, 6, 7, 8>>
    /\ artist = InitArtist
    /\ artistPlaycount = InitArtistPlaycount
    /\ playcount = InitPlaycount
    /\ recent = InitRecent
    /\ IdleInit

\* SimilarityEngine.calculate_track_similarity(track_a, track_b)
CalculateTrackSimilarity(a, b) ==
    /\ tkOut' = [op |-> "pair", a |-> a, b |-> b, is_none |-> SimIsNone(a, b),
                 value |-> IF SimIsNone(a, b) THEN 0 ELSE calculate_track_similarity(a, b)]
    /\ UNCHANGED <<features, artist, artistPlaycount, playcount, recent, hashOrder, dbOrder, jobs, simStore,
                   cache, prefs, mmrIn, mmrOut, recOut>>

NextPair == \E a \in PairTracks, b \in PairTracks : CalculateTrackSimilarity(a, b)

SpecPair == InitPair /\ [][NextPair]_vars

\* C11: for two tracks with identical feature rows (same numeric attributes, same
\* genre and mood tags, same popularity) calculate_track_similarity returns 1.0.
C11_IdenticalFeaturesScoreOne ==
    (/\ tkOut.op = "pair"
     /\ HasFeatures(tkOut.a) /\ HasFeatures(tkOut.b)
     /\ features[tkOut.a] = features[tkOut.b])
        => (~tkOut.is_none /\ tkOut.value = 1000)

-----------------------------------------------------------------------------
(* EnhancedDeepCutEngine of services/deepcut_engine.py.                      *)
(* exploration_level is in tenths; the component scores of a candidate are   *)
(* in units of 1/100000; its overall score is a numerator over               *)
(* (20 + 2 * level) * 100000.                                                *)

\* int(10 ** (5 - (5 - log10(500)) * level)) for the levels 0.1 .. 0.9
InterpolatedThresholds == <<58870, 34657, 20402, 12011, 7071, 4162, 2450, 1442, 849>>

\* _calculate_popularity_threshold
calculate_popularity_threshold(level) ==
    IF level <= 0 THEN 100000
    ELSE IF level >= 10 THEN 500
    ELSE InterpolatedThresholds[level]

\* _extract_genres
extract_genres(f) == f.genre_tags

\* the query without .exclude(artist=seed_track.artist)
get_candidate_tracks_any_artist(seed, max_popularity, genre_constraint) ==
    LET rows == {t \in Tracks : /\ playcount[t] <= max_popularity
                                /\ playcount[t] > 0
                                /\ t # seed}
    IN IF genre_constraint /\ HasFeatures(seed) /\ extract_genres(features[seed]) # <<>>
       THEN [raised |-> TRUE, rows |-> {}]
       ELSE [raised |-> FALSE, rows |-> rows]

\* _get_candidate_tracks: the rows of the query, or the error the genre filter raises
\* (it names the reverse relation simpletrackfeatures, the relation's query name
\* being simple_features, so building the filter fails whenever it is built)
get_candidate_tracks(seed, max_popularity, genre_constraint) ==
    LET rows == {t \in Tracks : /\ playcount[t] <= max_popularity
                                /\ playcount[t] > 0
                                /\ t # seed
                                /\ artist[t] # artist[seed]}
    IN IF genre_constraint /\ HasFeatures(seed) /\ extract_genres(features[seed]) # <<>>
       THEN [raised |-> TRUE, rows |-> {}]
       ELSE [raised |-> FALSE, rows |-> rows]

\* EnhancedDeepCutEngine._calculate_similarity: 0.3 when the engine returns None
DC_calculate_similarity(t1, t2) ==
    IF SimIsNone(t1, t2) THEN 30000 ELSE 100 * calculate_track_similarity(t1, t2)

\* _count_unique_tags
count_unique_tags(f) == Cardinality(SeqToSet(f.genre_tags) \cup SeqToSet(f.mood_tags))

\* _calculate_novelty: 0.5, times 1 - 0.5 * min(1, artist playcount / 1000000) for an
\* artist with a playcount, times 1.2 for more than three unique tags, at most 1
calculate_novelty(t) ==
    LET ap == artistPlaycount[artist[t]]
        base == IF ap # 0 THEN 50000 - Min2(1000000, ap) \div 40 ELSE 50000
        boosted == IF HasFeatures(t) /\ count_unique_tags(features[t]) > 3
                   THEN (base * 12) \div 10 ELSE base
    IN Min2(100000, boosted)

\* _score_candidate
score_candidate(seed, t, level) ==
    LET similarity_score == DC_calculate_similarity(seed, t)
        popularity_score == 100000 - Min2(100000, playcount[t])
        novelty_score == calculate_novelty(t)
    IN [track |-> t,
        similarity_score |-> similarity_score,
        popularity_score |-> popularity_score,
        novelty_score |-> novelty_score,
        overall_score |-> similarity_score * (20 - level) + novelty_score * 2 * level
                          + popularity_score * level]

\* the scoring loop of find_deepcuts over candidates[:100]
RECURSIVE ScoreCandidates(_, _, _, _)
ScoreCandidates(seed, candidates, level, min_similarity) ==
    IF candidates = <<>> THEN <<>>
    ELSE LET c == score_candidate(seed, Head(candidates), level)
             rest == ScoreCandidates(seed, Tail(candidates), level, min_similarity)
         IN IF c.similarity_score >= 100 * min_similarity THEN <<c>> \o rest ELSE rest

\* scored_candidates.sort(key=lambda x: x.overall_score, reverse=True)
SortByOverall(scored) ==
    LET sorted == StableSortDesc([i \in 1..Len(scored) |-> <<scored[i], scored[i].overall_score>>])
    IN [i \in 1..Len(sorted) |-> sorted[i][1]]

\* least similarity of a candidate to the selected ones, starting from 1.0
RECURSIVE DC_min_similarity(_, _, _)
DC_min_similarity(t, selected, acc) ==
    IF selected = <<>> THEN acc
    ELSE DC_min_similarity(t, Tail(selected),
                           Min2(acc, DC_calculate_similarity(t, Head(selected).track)))

\* mutant: the (1 - min_similarity) term is left out
diversity_adjusted_score_relevance_only(c, selected, level) ==
    7 * c.overall_score

\* overall_score * 0.7 + (1 - min_similarity) * 0.3, in units of
\* 1 / (10 * (20 + 2 * level) * 100000)
diversity_adjusted_score(c, selected, level) ==
    7 * c.overall_score
    + 3 * (100000 - DC_min_similarity(c.track, selected, 100000)) * (20 + 2 * level)

\* the while loop of _select_diverse_deepcuts (best_diversity_score starts at -1)
RECURSIVE DC_select_loop(_, _, _, _)
DC_select_loop(selected, remaining, limit, level) ==
    IF ~(Len(selected) < limit /\ remaining # <<>>) THEN selected
    ELSE LET scores == [i \in 1..Len(remaining) |->
                           diversity_adjusted_score(remaining[i], selected, level)]
             best == ArgBest(scores, 1, -(10 * (20 + 2 * level) * 100000), 0)
         IN IF best = 0 THEN selected
            ELSE DC_select_loop(Append(selected, remaining[best]),
                                RemoveAt(remaining, best), limit, level)

\* _select_diverse_deepcuts
select_diverse_deepcuts(candidates, limit, level) ==
    IF candidates = <<>> THEN <<>>
    ELSE DC_select_loop(<<candidates[1]>>, Tail(candidates), limit, level)

\* the rows S in the order `shuffle` (ORDER BY '?') gives them
Shuffled(S, shuffle) ==
    LET pos == [t \in S |-> CHOOSE i \in 1..Len(shuffle) : shuffle[i] = t]
    IN OrderByDesc(S, [t \in S |-> 0], pos)

\* find_deepcuts up to the sort: the candidates that passed min_similarity, by
\* overall_score descending (none when the query raised)
scored_candidates(seed, level, min_similarity, genre_constraint, shuffle) ==
    LET q == get_candidate_tracks(seed, calculate_popularity_threshold(level),
                                  genre_constraint)
        candidates == PySlice(Shuffled(q.rows, shuffle), 200)
        scored == ScoreCandidates(seed, PySlice(candidates, 100), level, min_similarity)
    IN IF q.raised \/ candidates = <<>> THEN <<>> ELSE SortByOverall(scored)

\* find_deepcuts; an exception anywhere inside makes it return []
find_deepcuts(seed, level, limit, min_similarity, genre_constraint, shuffle) ==
    LET scored == scored_candidates(seed, level, min_similarity, genre_constraint, shuffle)
    IN IF scored = <<>> THEN <<>>
       ELSE select_diverse_deepcuts(scored, limit, level)

(* Specification SpecDeepCut: find_deepcuts over the catalog *)

DeepSeeds == {1, 5, 8}
ExplorationLevels == {0, 5, 10}
\* limits (zero and negative limits are drawn in SpecRange)
DeepLimits == (1..MaxK) \cup {10}
DeepMinSims == {300, 500}

InitDeepCut ==
    /\ CatalogInit
    /\ hashOrder = <<"rock", "pop", "jazz", "upbeat", "mellow">>
    /\ IdleInit

\* EnhancedDeepCutEngine.find_deepcuts(seed, exploration_level, limit, min_similarity,
\* genre_constraint); shuffle is the order ORDER BY '?' produced
FindDeepcuts(seed, level, limit, min_similarity, genre_constraint, shuffle) ==
    /\ tkOut' = [op |-> "deepcuts", seed |-> seed, level |-> level, limit |-> limit,
                 min |-> min_similarity, genre_constraint |-> genre_constraint,
                 shuffle |-> shuffle,
                 scored |-> scored_candidates(seed, level, min_similarity,
                                              genre_constraint, shuffle),
                 res |-> find_deepcuts(seed, level, limit, min_similarity,
                                       genre_constraint, shuffle)]
    /\ UNCHANGED <<features, artist, artistPlaycount, playcount, recent, hashOrder,
                   dbOrder, jobs, simStore, cache, prefs, mmrIn, mmrOut, recOut>>

NextDeepCut ==
    \E seed \in DeepSeeds, level \in ExplorationLevels, limit \in DeepLimits,
       m \in DeepMinSims, genre_constraint \in BOOLEAN, shuffle \in DbOrders :
        FindDeepcuts(seed, level, limit, m, genre_constraint, shuffle)

SpecDeepCut == InitDeepCut /\ [][NextDeepCut]_vars

\* C13: no track without a feature row appears in what find_similar_tracks or
\* find_deepcuts returns.
C13_NoFeaturelessTrackInResults ==
    /\ tkOut.op = "find" =>
           \A i \in 1..Len(tkOut.res) : HasFeatures(tkOut.res[i][1])
    /\ tkOut.op = "deepcuts" =>
           \A i \in 1..Len(tkOut.res) : HasFeatures(tkOut.res[i].track)

-----------------------------------------------------------------------------
(* DiversityOptimizer.calculate_diversity_metrics *)

\* _calculate_genre_coverage, in twentieths: min(1.0, len(all_genres) / 20)
calculate_genre_coverage(tracks) ==
    Min2(20, Cardinality(UNION { get_track_genres(tracks[i]) : i \in 1..Len(tracks) }))

\* _calculate_artist_diversity: unique artists over the length of the list
calculate_artist_diversity(tracks) ==
    [num |-> Cardinality({ artist[tracks[i]] : i \in 1..Len(tracks) }),
     den |-> Len(tracks)]

\* np.std of one column of the feature array, per-mille:
\* sqrt(n * sum(x^2) - sum(x)^2) / n for values in tenths
StdPermille(column) ==
    LET n == Len(column)
        v == n * Dot(column, column) - SumSeq(column) * SumSeq(column)
    IN ISqrt(10000 * v) \div n

\* _calculate_feature_diversity: the sum over the six columns of the standard
\* deviation (the mean is this sum / 6), over the tracks that have a feature row
calculate_feature_diversity(tracks) ==
    IF Len(tracks) < 2 THEN 0
    ELSE LET features_list == SelectSeq(tracks, HasFeatures)
         IN IF Len(features_list) < 2 THEN 0
            ELSE SumSeq([dim \in 1..6 |->
                     StdPermille([i \in 1..Len(features_list) |->
                         get_feature_vector(features[features_list[i]])[dim]])])

calculate_diversity_metrics(tracks) ==
    IF tracks = <<>>
    THEN [intra_list_diversity |-> [total |-> 0, count |-> 1],
          genre_coverage |-> 0,
          artist_diversity |-> [num |-> 0, den |-> 1],
          feature_diversity |-> 0]
    ELSE [intra_list_diversity |-> calculate_intra_list_diversity(tracks),
          genre_coverage |-> calculate_genre_coverage(tracks),
          artist_diversity |-> calculate_artist_diversity(tracks),
          feature_diversity |-> calculate_feature_diversity(tracks)]

(* Specification SpecMetrics: calculate_diversity_metrics of a list of tracks *)

\* lists of tracks, a track possibly more than once
TrackLists == UNION { [1..k -> Tracks] : k \in 0..MaxCand }

InitMetrics ==
    /\ CatalogInit
    /\ hashOrder = <<"rock", "pop", "jazz", "upbeat", "mellow">>
    /\ jobs = NoJobs
    /\ simStore = {}
    /\ cache = <<>>
    /\ prefs = DefaultPrefs
    /\ mmrIn \in [tracks : TrackLists]
    /\ mmrOut = [impl |-> "none", res |-> <<>>]
    /\ tkOut = [op |-> "none"]
    /\ recOut = [op |-> "none"]

\* DiversityOptimizer().calculate_diversity_metrics(recommendations)
CalculateDiversityMetrics ==
    /\ tkOut.op = "none"
    /\ tkOut' = [op |-> "metrics", tracks |-> mmrIn.tracks,
                 metrics |-> calculate_diversity_metrics(mmrIn.tracks)]
    /\ UNCHANGED <<features, artist, artistPlaycount, playcount, recent, hashOrder,
                   dbOrder, jobs, simStore, cache, prefs, mmrIn, mmrOut, recOut>>

NextMetrics == CalculateDiversityMetrics

SpecMetrics == InitMetrics /\ [][NextMetrics]_vars

\* C14: the four metrics of calculate_diversity_metrics lie in [0, 1] for every
\* list of tracks; intra_list_diversity is 0 for fewer than 2 tracks and otherwise
\* the mean of (1 - similarity) over all unordered pairs of positions.
C14_MetricsInUnitRange ==
    tkOut.op = "metrics" =>
        LET m == tkOut.metrics
            tracks == tkOut.tracks
            n == Len(tracks)
            pairs == {pr \in (1..n) \X (1..n) : pr[1] < pr[2]}
            dist == [pr \in pairs |->
                        1000 - DO_calculate_similarity(tracks[pr[1]], tracks[pr[2]])]
        IN /\ m.intra_list_diversity.count > 0
           /\ 0 <= m.intra_list_diversity.total
           /\ m.intra_list_diversity.total <= 1000 * m.intra_list_diversity.count
           /\ 0 <= m.genre_coverage /\ m.genre_coverage <= 20
           /\ 0 <= m.artist_diversity.num
           /\ m.artist_diversity.num <= m.artist_diversity.den
           /\ 0 <= m.feature_diversity /\ m.feature_diversity <= 6 * 1000
           /\ n < 2 => m.intra_list_diversity.total = 0
           /\ n >= 2 => m.intra_list_diversity.total * Cardinality(pairs)
                            = SumOver(dist, pairs) * m.intra_list_diversity.count

\* metrics of a list of three tracks of different artists, one without a feature row
C14_Witness ==
    /\ tkOut.op = "metrics"
    /\ Len(tkOut.tracks) = 3
    /\ \E i \in 1..3 : ~HasFeatures(tkOut.tracks[i])
    /\ tkOut.metrics.artist_diversity.num = 3
    /\ tkOut.metrics.intra_list_diversity.total > 0
    /\ tkOut.metrics.feature_diversity > 0

-----------------------------------------------------------------------------
(* Specification SpecPrecalc: workers running precalculate_similarities over *)
(* shards of the catalog, interleaved at the bulk_create of each track       *)

\* bulk_create(rows, ignore_conflicts=False) raises IntegrityError on a duplicate
bulk_create_raises_strict(store, rows) ==
    \E r \in rows, o \in store : o.track_a = r.track_a /\ o.track_b = r.track_b

\* whether bulk_create(rows, ignore_conflicts=True) raises IntegrityError
bulk_create_raises(store, rows) == FALSE

\* rows of a bulk_create whose (track_a, track_b) is in the table already
Conflicts(store, rows) ==
    { r \in rows : \E o \in store : o.track_a = r.track_a /\ o.track_b = r.track_b }

\* two shards that share tracks 1 and 3, in opposite orders
ShardLists == { <<1, 2, 3>>, <<5, 3, 1>> }
ShardBatchSizes == {2, 100}

\* a worker calls precalculate_similarities(tracks, batch_size, min_similarity)
StartPrecalc(w, tracks, batch_size, min_similarity) ==
    /\ jobs[w].status # "running"
    /\ jobs' = [jobs EXCEPT ![w] = [status |-> "running", tracks |-> tracks,
                                    batch_size |-> batch_size, min |-> min_similarity,
                                    i |-> 1, similarities_stored |-> 0, conflicts |-> 0]]
    /\ UNCHANGED <<features, artist, artistPlaycount, playcount, recent, hashOrder,
                   dbOrder, simStore, cache, prefs, mmrIn, mmrOut, tkOut, recOut>>

\* one pass of the loop "for i in range(total_tracks)": the comparisons of tracks[i]
\* and the bulk_create of its rows in one transaction
PrecalcStep(w) ==
    /\ jobs[w].status = "running"
    /\ jobs[w].i <= Len(jobs[w].tracks)
    /\ LET j == jobs[w]
           batch == PrecalcBatch(j.tracks, j.i, j.batch_size, j.min)
       IN IF batch # {} /\ bulk_create_raises(simStore, batch)
          THEN /\ jobs' = [jobs EXCEPT ![w] = [status |-> "failed"]]
               /\ UNCHANGED simStore
          ELSE /\ simStore' = BulkCreate(simStore, batch)
               /\ jobs' = [jobs EXCEPT ![w] =
                              [j EXCEPT !.i = j.i + 1,
                                        !.similarities_stored = @ + Cardinality(batch),
                                        !.conflicts = @ + Cardinality(Conflicts(simStore, batch))]]
    /\ UNCHANGED <<features, artist, artistPlaycount, playcount, recent, hashOrder,
                   dbOrder, cache, prefs, mmrIn, mmrOut, tkOut, recOut>>

\* return comparisons_made, similarities_stored
PrecalcReturn(w) ==
    /\ jobs[w].status = "running"
    /\ jobs[w].i > Len(jobs[w].tracks)
    /\ LET j == jobs[w]
       IN tkOut' = [op |-> "precalc", tracks |-> j.tracks, batch_size |-> j.batch_size,
                    min |-> j.min,
                    compared |-> PrecalcCompared(j.tracks, 1, j.batch_size),
                    comparisons_made |-> PrecalcComparisons(j.tracks, j.batch_size),
                    similarities_stored |-> j.similarities_stored,
                    conflicts |-> j.conflicts]
    /\ jobs' = [jobs EXCEPT ![w] = [status |-> "idle"]]
    /\ UNCHANGED <<features, artist, artistPlaycount, playcount, recent, hashOrder,
                   dbOrder, simStore, cache, prefs, mmrIn, mmrOut, recOut>>

NextPrecalc ==
    \/ \E w \in Workers, tracks \in ShardLists, b \in ShardBatchSizes, m \in StoreMins :
           StartPrecalc(w, tracks, b, m)
    \/ \E w \in Workers : PrecalcStep(w)
    \/ \E w \in Workers : PrecalcReturn(w)

InitPrecalc ==
    /\ InitTopK
    /\ dbOrder = <<1, 2, 3, 4, 5, 6, 7, 8>>

SpecPrecalc == InitPrecalc /\ [][NextPrecalc]_vars

-----------------------------------------------------------------------------
(* Claims about precalculate_similarities and the TrackSimilarity table *)

\* C15: precalculate_similarities compares the tracks at positions i and j exactly
\* when i < j < i + batch_size and both have a feature row, each such pair once;
\* comparisons_made is the number of these pairs, and a batch_size of at least the
\* length of the list covers every pair of positions with feature rows.
C15_WindowedPairsOnce ==
    tkOut.op = "precalc" =>
        LET tracks == tkOut.tracks
            n == Len(tracks)
            compared == tkOut.compared
            window == { p \in (1..n) \X (1..n) :
                          /\ p[1] < p[2] /\ p[2] < p[1] + tkOut.batch_size
                          /\ HasFeatures(tracks[p[1]]) /\ HasFeatures(tracks[p[2]]) }
            all == { p \in (1..n) \X (1..n) :
                          /\ p[1] < p[2]
                          /\ HasFeatures(tracks[p[1]]) /\ HasFeatures(tracks[p[2]]) }
        IN /\ SeqToSet(compared) = window
           /\ \A x, y \in 1..Len(compared) : x # y => compared[x] # compared[y]
           /\ tkOut.comparisons_made = Cardinality(window)
           /\ tkOut.batch_size >= n => SeqToSet(compared) = all

\* a run whose window leaves a pair of positions out
C15_Witness ==
    /\ tkOut.op = "precalc"
    /\ tkOut.batch_size = 2
    /\ Len(tkOut.tracks) = 3
    /\ \A i \in 1..3 : HasFeatures(tkOut.tracks[i])
    /\ tkOut.comparisons_made = 2


\* C16: whatever runs of precalculate_similarities were made, over whatever
\* orderings of the tracks, the table holds at most one row per unordered pair of
\* tracks: never two rows for (A, B), and never a row (A, B) beside a row (B, A).
C16_OneRowPerUnorderedPair ==
    \A r1, r2 \in simStore :
        r1 # r2 => /\ ~(r1.track_a = r2.track_a /\ r1.track_b = r2.track_b)
                   /\ ~(r1.track_a = r2.track_b /\ r1.track_b = r2.track_a)

-----------------------------------------------------------------------------
(* Specification SpecCache: find_similar_tracks over a cache backend that may *)
(* fail, while feature rows and TrackSimilarity rows are being added          *)

\* FeatureExtractor.extract_track_features(track): the row it creates for a track
\* that has none, from the defaults energy = valence = danceability = acousticness
\* = 0.5, tempo 120 (normalized 0.5), popularity 50 (normalized 0.5) and the tags
\* fetch_tags_for_track returned
extract_track_features(track, genre_tags, mood_tags) ==
    IF HasFeatures(track) THEN features
    ELSE [t \in DOMAIN features \cup {track} |->
             IF t = track THEN Feat(5, 5, 5, 5, 5, 5, genre_tags, mood_tags)
             ELSE features[t]]

ExtractTrackFeatures(track, genre_tags, mood_tags) ==
    /\ features' = extract_track_features(track, genre_tags, mood_tags)
    /\ tkOut' = [op |-> "extract", track |-> track, created |-> ~HasFeatures(track)]
    /\ UNCHANGED <<artist, artistPlaycount, playcount, recent, hashOrder, dbOrder, jobs,
                   simStore, cache, prefs, mmrIn, mmrOut, recOut>>

CacheSeeds == {1, 6}
CacheLimits == {1, 10}
CacheMinSims == {500, 800}
ExtractTracks == {1, 5}
FetchedTags == { <<<<"pop">>, <<"upbeat">>>>, <<<<>>, <<>>>> }

InitCache ==
    /\ InitTopK
    /\ dbOrder = <<1, 2, 3, 4, 5, 6, 7, 8>>

NextCache ==
    \/ \E seed \in CacheSeeds, limit \in CacheLimits, m \in CacheMinSims,
          fault \in CacheFaults :
           FindSimilarTracks(seed, limit, m, fault)
    \/ \E track \in ExtractTracks, tags \in FetchedTags :
           ExtractTrackFeatures(track, tags[1], tags[2])
    \/ \E tracks \in PrecalcLists, m \in StoreMins :
           PrecalculateSimilarities(tracks, 100, m)
    \/ \E key \in DOMAIN cache : CacheExpire(key)

SpecCache == InitCache /\ [][NextCache]_vars

\* C18: a call of find_similar_tracks whose key (seed, limit, min_similarity) has
\* an unexpired cache entry returns the cached list, whatever that list is and
\* whatever has been added to the catalog since, without reading the table or
\* computing; and a list is returned from the cache only under its own key.
C18_CachedListReturned ==
    (tkOut.op = "find" /\ ~tkOut.raised) =>
        /\ tkOut.cached => (tkOut.path = "cache_hit" /\ tkOut.res = tkOut.cached_value)
        /\ tkOut.path = "cache_hit" => (tkOut.cached /\ tkOut.res = tkOut.cached_value)

\* C19: an error of the cache backend during find_similar_tracks, on get or on
\* set, does not come out of the call.
C19_CacheErrorNotPropagated ==
    (tkOut.op = "find" /\ tkOut.fault # "none") => ~tkOut.raised


-----------------------------------------------------------------------------
(* Specification SpecRange: one call of apply_mmr, find_similar_tracks or *)
(* find_deepcuts with arguments inside and outside their documented range *)

\* lambda_param in tenths: below 0, inside [0, 1], above 1
RangeLambdas == {-5, 0, 5, 10, 15}
\* limit / num_results: negative, zero and positive
RangeLimits == (-1)..MaxK
\* candidate lists as find_similar_tracks returns them for seeds 1 and 3
RangeCandLists ==
    { <<>>,
      <<<<2, 985>>>>,
      <<<<2, 985>>, <<4, 866>>, <<6, 697>>>>,
      <<<<7, 876>>, <<4, 477>>, <<6, 414>>>> }
RangeSeeds == {1, 5}

NoCallYet == mmrOut.impl = "none" /\ tkOut.op = "none"

\* apply_mmr(candidates, lambda_param, num_results) of either DiversityOptimizer
RangeApplyMMR(impl, cands, lam, n) ==
    /\ NoCallYet
    /\ mmrIn' = [cands |-> cands, lam |-> lam, n |-> n]
    /\ mmrOut' = [impl |-> impl,
                  res |-> IF impl = "do" THEN DO_apply_mmr(cands, lam, n)
                          ELSE SE_apply_mmr(cands, lam, n)]
    /\ UNCHANGED <<features, artist, artistPlaycount, playcount, recent, hashOrder,
                   dbOrder, jobs, simStore, cache, prefs, tkOut, recOut>>

RangeFindSimilarTracks(seed, limit, min_similarity) ==
    /\ NoCallYet
    /\ FindSimilarTracks(seed, limit, min_similarity, "none")

RangeFindDeepcuts(seed, level, limit, min_similarity, genre_constraint, shuffle) ==
    /\ NoCallYet
    /\ FindDeepcuts(seed, level, limit, min_similarity, genre_constraint, shuffle)

InitRange ==
    /\ InitTopK
    /\ dbOrder = <<1, 2, 3, 4, 5, 6, 7, 8>>

NextRange ==
    \/ \E impl \in {"do", "se"}, cands \in RangeCandLists, lam \in RangeLambdas,
          n \in RangeLimits :
           RangeApplyMMR(impl, cands, lam, n)
    \/ \E seed \in RangeSeeds, limit \in RangeLimits, m \in MinSims :
           RangeFindSimilarTracks(seed, limit, m)
    \/ \E seed \in RangeSeeds, level \in ExplorationLevels, limit \in RangeLimits,
          m \in DeepMinSims, genre_constraint \in BOOLEAN, shuffle \in DbOrders :
           RangeFindDeepcuts(seed, level, limit, m, genre_constraint, shuffle)

SpecRange == InitRange /\ [][NextRange]_vars

\* C20: arguments outside their range act as the nearest valid value: apply_mmr
\* with lambda_param below 0 or above 1 returns what it returns for 0 or 1, and
\* apply_mmr, find_similar_tracks and find_deepcuts with a zero or negative limit
\* return what they return for the limit 1, never more than one element and never
\* an exception.
C20_OutOfRangeClamped ==
    LET lam == Max2(0, Min2(10, mmrIn.lam))
        n == Max2(1, mmrIn.n)
    IN /\ mmrOut.impl = "do" => mmrOut.res = DO_apply_mmr(mmrIn.cands, lam, n)
       /\ mmrOut.impl = "se" => mmrOut.res = SE_apply_mmr(mmrIn.cands, lam, n)
       /\ tkOut.op = "find" =>
              /\ ~tkOut.raised
              /\ Len(tkOut.res) <= Max2(1, tkOut.limit)
       /\ tkOut.op = "deepcuts" =>
              tkOut.res = find_deepcuts(tkOut.seed, tkOut.level, Max2(1, tkOut.limit),
                                        tkOut.min, tkOut.genre_constraint, tkOut.shuffle)


-----------------------------------------------------------------------------
(* Claims about the deep-cut engine *)

\* exploration levels in tenths, from below 0 to above 1
ThresholdLevels == (-2)..12

\* C21: every candidate find_deepcuts returns is a track other than the seed, by
\* another artist than the seed's, with 0 < playcount <= threshold(level) and with
\* similarity_score >= min_similarity; the threshold is 100000 for level <= 0, 500
\* for level >= 1 and non-increasing in the level.
C21_DeepCutCandidateConstraints ==
    /\ \A l \in ThresholdLevels :
           /\ l <= 0 => calculate_popularity_threshold(l) = 100000
           /\ l >= 10 => calculate_popularity_threshold(l) = 500
           /\ \A l2 \in ThresholdLevels :
                  l <= l2 => calculate_popularity_threshold(l)
                                 >= calculate_popularity_threshold(l2)
    /\ tkOut.op = "deepcuts" =>
           \A i \in 1..Len(tkOut.res) :
               LET c == tkOut.res[i]
               IN /\ c.track # tkOut.seed
                  /\ artist[c.track] # artist[tkOut.seed]
                  /\ playcount[c.track] > 0
                  /\ playcount[c.track] <= calculate_popularity_threshold(tkOut.level)
                  /\ c.similarity_score >= 100 * tkOut.min

\* a non-empty result at level 1.0 for which the catalog holds another track of the
\* seed's artist, a track above the threshold, a track never played and a track
\* below min_similarity, all of them left out
C21_Witness ==
    /\ tkOut.op = "deepcuts"
    /\ tkOut.level = 10
    /\ tkOut.res # <<>>
    /\ \E t \in Tracks : t # tkOut.seed /\ artist[t] = artist[tkOut.seed] /\ playcount[t] > 0
    /\ \E t \in Tracks : artist[t] # artist[tkOut.seed] /\ playcount[t] > 500
    /\ \E t \in Tracks : artist[t] # artist[tkOut.seed] /\ playcount[t] = 0
    /\ \E t \in Tracks : /\ artist[t] # artist[tkOut.seed] /\ playcount[t] \in 1..500
                         /\ DC_calculate_similarity(tkOut.seed, t) < 100 * tkOut.min


-----------------------------------------------------------------------------
(* Specification SpecJaccard: TagAnalyzer.jaccard_similarity of two tag lists *)

\* longest tag list drawn
MaxTags == 2

\* len(intersection) / len(union) over the lists themselves, without set()
jaccard_similarity_of_lists(tags1, tags2) ==
    IF tags1 = <<>> \/ tags2 = <<>> THEN [num |-> 0, den |-> 1]
    ELSE LET common == Cardinality({i \in 1..Len(tags1) : tags1[i] \in SeqToSet(tags2)})
         IN [num |-> common, den |-> Len(tags1) + Len(tags2) - common]

\* TagAnalyzer.jaccard_similarity as the fraction num / den
jaccard_similarity(tags1, tags2) ==
    IF tags1 = <<>> \/ tags2 = <<>> THEN [num |-> 0, den |-> 1]
    ELSE LET set1 == SeqToSet(tags1)
             set2 == SeqToSet(tags2)
             intersection == set1 \cap set2
             union == set1 \cup set2
         IN IF union = {} THEN [num |-> 0, den |-> 1]
            ELSE [num |-> Cardinality(intersection), den |-> Cardinality(union)]

JaccardTags == {"rock", "indie", "jazz"}

\* tag lists, a tag possibly more than once
TagLists == UNION { [1..k -> JaccardTags] : k \in 0..MaxTags }

InitJaccard ==
    /\ CatalogInit
    /\ dbOrder = <<1, 2, 3, 4, 5, 6, 7, 8>>
    /\ hashOrder = <<"rock", "pop", "jazz", "upbeat", "mellow">>
    /\ jobs = NoJobs
    /\ simStore = {}
    /\ cache = <<>>
    /\ prefs = DefaultPrefs
    /\ mmrIn \in [tags1 : TagLists, tags2 : TagLists]
    /\ mmrOut = [impl |-> "none", res |-> <<>>]
    /\ tkOut = [op |-> "none"]
    /\ recOut = [op |-> "none"]

\* TagAnalyzer.jaccard_similarity(tags1, tags2)
JaccardSimilarity ==
    /\ tkOut.op = "none"
    /\ tkOut' = [op |-> "jaccard", tags1 |-> mmrIn.tags1, tags2 |-> mmrIn.tags2,
                 value |-> jaccard_similarity(mmrIn.tags1, mmrIn.tags2)]
    /\ UNCHANGED <<features, artist, artistPlaycount, playcount, recent, hashOrder,
                   dbOrder, jobs, simStore, cache, prefs, mmrIn, mmrOut, recOut>>

NextJaccard == JaccardSimilarity

SpecJaccard == InitJaccard /\ [][NextJaccard]_vars

\* C22: jaccard_similarity(A, B) is |A n B| / |A u B| of the sets of the two lists:
\* 1 for equal non-empty sets, 0 for disjoint sets or an empty list, the same with
\* the arguments exchanged, within [0, 1], and the same for every list with the
\* same set of tags (repeated tags do not matter).
C22_JaccardOfSets ==
    tkOut.op = "jaccard" =>
        LET a == SeqToSet(tkOut.tags1)
            b == SeqToSet(tkOut.tags2)
            v == tkOut.value
        IN /\ v.den > 0 /\ 0 <= v.num /\ v.num <= v.den
           /\ (a # {} /\ b # {}) =>
                  v.num * Cardinality(a \cup b) = Cardinality(a \cap b) * v.den
           /\ (a = b /\ a # {}) => v.num = v.den
           /\ (a \cap b = {}) => v.num = 0
           /\ jaccard_similarity(tkOut.tags2, tkOut.tags1).num * v.den
                  = v.num * jaccard_similarity(tkOut.tags2, tkOut.tags1).den
           /\ \A t1 \in TagLists, t2 \in TagLists :
                  (SeqToSet(t1) = a /\ SeqToSet(t2) = b) =>
                      jaccard_similarity(t1, t2).num * v.den
                          = v.num * jaccard_similarity(t1, t2).den

\* two overlapping lists, one of them naming a tag twice
C22_Witness ==
    /\ tkOut.op = "jaccard"
    /\ Len(tkOut.tags1) > Cardinality(SeqToSet(tkOut.tags1))
    /\ tkOut.value.num > 0
    /\ tkOut.value.num < tkOut.value.den


-----------------------------------------------------------------------------
(* Claims about the stored similarity rows in find_similar_tracks *)

\* C23: on a cache miss find_similar_tracks answers from the stored rows only when
\* enough of them reach min_similarity to satisfy the request, so a call that
\* answers from the stored rows never returns fewer tracks than the on-the-fly
\* computation would return for the same arguments.
C23_StoredRowsOnlyWhenEnough ==
    (tkOut.op = "find" /\ tkOut.path = "precalculated") =>
        Len(tkOut.res) >= Len(calculate_similarities_batch(tkOut.seed, tkOut.limit, tkOut.min))


\* C24: find_deepcuts selects greedily among the candidates that passed
\* min_similarity: the first result is the one with the highest overall_score, each
\* later result is the remaining candidate with the highest
\* 0.7 * overall_score + 0.3 * (1 - least similarity to the selected ones), the
\* earlier one in descending overall_score order on a tie, and the result holds
\* exactly min(limit, number of surviving candidates) distinct candidates.
C24_GreedyDiverseSelection ==
    tkOut.op = "deepcuts" =>
        LET s == tkOut.scored
            r == tkOut.res
            unit == 20 + 2 * tkOut.level
            pos(c) == CHOOSE i \in 1..Len(s) : s[i] = c
            least(c, k) == CHOOSE m \in {DC_calculate_similarity(c.track, r[j].track) : j \in 1..(k - 1)} :
                               \A j \in 1..(k - 1) : m <= DC_calculate_similarity(c.track, r[j].track)
            adjusted(c, k) == 7 * c.overall_score + 3 * (100000 - least(c, k)) * unit
            remaining(k) == {s[i] : i \in 1..Len(s)} \ {r[j] : j \in 1..(k - 1)}
        IN /\ Len(r) = Min2(tkOut.limit, Len(s))
           /\ \A i, j \in 1..Len(r) : i # j => r[i].track # r[j].track
           /\ \A i \in 1..Len(r) : \E j \in 1..Len(s) : s[j] = r[i]
           /\ r # <<>> => /\ r[1] = s[1]
                          /\ \A i \in 1..Len(s) : r[1].overall_score >= s[i].overall_score
           /\ \A k \in 2..Len(r) :
                  \A c \in remaining(k) :
                      \/ adjusted(r[k], k) > adjusted(c, k)
                      \/ adjusted(r[k], k) = adjusted(c, k) /\ pos(r[k]) <= pos(c)

\* a call with more survivors than the limit whose second pick is not the second
\* best overall_score
C24_Witness ==
    /\ tkOut.op = "deepcuts"
    /\ Len(tkOut.res) = 2
    /\ Len(tkOut.scored) > 2
    /\ tkOut.res[2] # tkOut.scored[2]


-----------------------------------------------------------------------------
(* Specification SpecRerank: DiversityOptimizer.rerank_for_diversity *)

\* lambda_param = max(0.1, 1.0 - (iteration + 1) * 0.1), in tenths
rerank_lambda(iteration) == Max2(1, 10 - (iteration + 1))

\* intra_list_diversity >= target_diversity (target per-mille)
DiversityReached(recs, target) ==
    LET ild == calculate_intra_list_diversity(TracksOf(recs))
    IN ild.total >= target * ild.count

\* the for loop of rerank_for_diversity from `iteration` on; passes records, for
\* each MMR pass made, its iteration number, its lambda and the list it produced
RECURSIVE rerank_loop(_, _, _, _, _)
rerank_loop(current_recs, iteration, target, max_iterations, passes) ==
    IF iteration >= max_iterations
    THEN [res |-> current_recs, passes |-> passes, reached |-> FALSE]
    ELSE IF DiversityReached(current_recs, target)
         THEN [res |-> current_recs, passes |-> passes, reached |-> TRUE]
         ELSE LET lambda_param == rerank_lambda(iteration)
                  next == mmr_optimization(current_recs, lambda_param)
              IN rerank_loop(next, iteration + 1, target, max_iterations,
                             Append(passes, [iteration |-> iteration, before |-> current_recs,
                                             lambda |-> lambda_param, list |-> next]))

\* rerank_for_diversity
rerank_for_diversity(recommendations, target, max_iterations) ==
    rerank_loop(recommendations, 0, target, max_iterations, <<>>)

\* recommendation lists in descending score order, and two that name a track twice
RerankLists ==
    { c \in CandLists : \A i \in 1..Len(c) : c[i][2] = 900 - 50 * (i - 1) }
    \cup { <<<<1, 900>>, <<1, 900>>, <<3, 850>>>>, <<<<3, 800>>, <<2, 850>>, <<3, 900>>>>,
           <<<<1, 300>>, <<4, 900>>, <<3, 890>>>> }
TargetDiversities == {0, 300, 900}
MaxIterations == {-1, 0, 1, 2, 10}

InitRerank ==
    /\ CatalogInit
    /\ dbOrder = <<1, 2, 3, 4, 5, 6, 7, 8>>
    /\ hashOrder = <<"rock", "pop", "jazz", "upbeat", "mellow">>
    /\ jobs = NoJobs
    /\ simStore = {}
    /\ cache = <<>>
    /\ prefs = DefaultPrefs
    /\ mmrIn \in [recs : RerankLists, target : TargetDiversities, max_iterations : MaxIterations]
    /\ mmrOut = [impl |-> "none", res |-> <<>>]
    /\ tkOut = [op |-> "none"]
    /\ recOut = [op |-> "none"]

\* DiversityOptimizer().rerank_for_diversity(recommendations, target_diversity, max_iterations)
RerankForDiversity ==
    /\ mmrOut.impl = "none"
    /\ LET r == rerank_for_diversity(mmrIn.recs, mmrIn.target, mmrIn.max_iterations)
       IN mmrOut' = [impl |-> "rerank", res |-> r.res, passes |-> r.passes, reached |-> r.reached]
    /\ UNCHANGED <<features, artist, artistPlaycount, playcount, recent, hashOrder,
                   dbOrder, jobs, simStore, cache, prefs, mmrIn, tkOut, recOut>>

NextRerank == RerankForDiversity

SpecRerank == InitRerank /\ [][NextRerank]_vars

\* C25: rerank_for_diversity makes at most max_iterations MMR passes, makes no pass
\* on a list whose intra-list diversity is at least target_diversity, makes the pass
\* of iteration number i (from 0) with lambda = max(0.1, 1 - i * 0.1), and returns
\* a list whose intra-list diversity is the highest among the input and the lists
\* the passes produced.
C25_RerankPassesAndLambda ==
    mmrOut.impl = "rerank" =>
        LET p == mmrOut.passes
            ild(l) == calculate_intra_list_diversity(TracksOf(l))
        IN /\ Len(p) <= Max2(0, mmrIn.max_iterations)
           /\ \A i \in 1..Len(p) :
                  /\ p[i].iteration = i - 1
                  /\ ~DiversityReached(p[i].before, mmrIn.target)
                  /\ p[i].lambda = Max2(1, 10 - p[i].iteration)
                  /\ p[i].list = mmr_optimization(p[i].before, p[i].lambda)
           /\ \A l \in {mmrIn.recs} \cup {p[i].list : i \in 1..Len(p)} :
                  ild(mmrOut.res).total * ild(l).count >= ild(l).total * ild(mmrOut.res).count


-----------------------------------------------------------------------------
(* Specification SpecExtract: FeatureExtractor.extract_track_features over tracks *)
(* that carry raw audio attributes                                           *)

\* an attribute the Track instance does not carry / carries with value v
NotSet == [set |-> FALSE, v |-> 0]
SetTo(v) == [set |-> TRUE, v |-> v]

\* getattr(track, name, default)
GetAttr(attr, default) == IF attr.set THEN attr.v ELSE default

\* normalize_tempo: BPM to tenths of the 40-200 range
normalize_tempo(tempo) ==
    IF tempo <= 0 THEN 5
    ELSE Max2(0, Min2(10, (10 * (tempo - 40)) \div 160))

\* normalize_popularity: 0..100 to tenths
normalize_popularity(popularity) ==
    IF popularity <= 0 THEN 0
    ELSE Min2(10, popularity \div 10)

\* the SimpleTrackFeatures row extract_track_features builds (values in tenths,
\* tempo in BPM, popularity 0..100)
build_features(raw, genre_tags, mood_tags) ==
    Feat(GetAttr(raw.energy, 5), GetAttr(raw.valence, 5),
         normalize_tempo(GetAttr(raw.tempo, 120)),
         GetAttr(raw.danceability, 5), GetAttr(raw.acousticness, 5),
         normalize_popularity(GetAttr(raw.popularity, 50)),
         genre_tags, mood_tags)

\* extract_track_features for a track carrying the attributes raw
extract_raw_features(track, raw, genre_tags, mood_tags) ==
    IF HasFeatures(track) THEN features
    ELSE [t \in DOMAIN features \cup {track} |->
             IF t = track THEN build_features(raw, genre_tags, mood_tags)
             ELSE features[t]]

RawAttributes ==
    [energy : {NotSet, SetTo(-2), SetTo(7), SetTo(15)},
     valence : {NotSet, SetTo(6)},
     tempo : {NotSet, SetTo(0), SetTo(30), SetTo(120), SetTo(250)},
     danceability : {NotSet, SetTo(8)},
     acousticness : {NotSet, SetTo(3)},
     popularity : {NotSet, SetTo(0), SetTo(75), SetTo(150)}]

InitExtract ==
    /\ CatalogInit
    /\ dbOrder = <<1, 2, 3, 4, 5, 6, 7, 8>>
    /\ hashOrder = <<"rock", "pop", "jazz", "upbeat", "mellow">>
    /\ jobs = NoJobs
    /\ simStore = {}
    /\ cache = <<>>
    /\ prefs = DefaultPrefs
    /\ mmrIn \in [raw : RawAttributes]
    /\ mmrOut = [impl |-> "none", res |-> <<>>]
    /\ tkOut = [op |-> "none"]
    /\ recOut = [op |-> "none"]

\* FeatureExtractor.extract_track_features(track), the track carrying mmrIn.raw
ExtractRawFeatures(track, genre_tags, mood_tags) ==
    /\ features' = extract_raw_features(track, mmrIn.raw, genre_tags, mood_tags)
    /\ tkOut' = [op |-> "extract_raw", track |-> track, created |-> ~HasFeatures(track),
                 before |-> features]
    /\ UNCHANGED <<artist, artistPlaycount, playcount, recent, hashOrder, dbOrder, jobs,
                   simStore, cache, prefs, mmrIn, mmrOut, recOut>>

NextExtract ==
    \E track \in ExtractTracks, tags \in FetchedTags :
        ExtractRawFeatures(track, tags[1], tags[2])

SpecExtract == InitExtract /\ [][NextExtract]_vars

\* C26: every row feature extraction writes has energy, valence, tempo_normalized,
\* danceability, acousticness and popularity_score within [0, 1] whatever raw values
\* the track carries, an attribute the track does not carry giving 0.5 (0.0 for
\* popularity); extraction for a track that has a row leaves the rows as they are.
C26_ExtractedFeaturesInRange ==
    tkOut.op = "extract_raw" =>
        IF tkOut.created
        THEN LET f == features[tkOut.track]
                 raw == mmrIn.raw
             IN /\ \A v \in {f.energy, f.valence, f.tempo_normalized, f.danceability,
                             f.acousticness, f.popularity_score} : 0 <= v /\ v <= 10
                /\ ~raw.energy.set => f.energy = 5
                /\ ~raw.valence.set => f.valence = 5
                /\ ~raw.tempo.set => f.tempo_normalized = 5
                /\ ~raw.danceability.set => f.danceability = 5
                /\ ~raw.acousticness.set => f.acousticness = 5
                /\ ~raw.popularity.set => f.popularity_score = 0
        ELSE features = tkOut.before


-----------------------------------------------------------------------------
(* Specification SpecLoops: the greedy re-ranking loops, one while-iteration *)
(* per step                                                                  *)

\* iterations of one loop that are followed
MaxSteps == 4

LoopImpls == {"mmr", "greedy", "hybrid", "se", "deepcut"}

\* _calculate_diversity_to_set: least similarity to a selected track, from 1.0
RECURSIVE DO_min_similarity(_, _, _)
DO_min_similarity(t, selected, acc) ==
    IF selected = <<>> THEN acc
    ELSE DO_min_similarity(t, Tail(selected),
                           Min2(acc, DO_calculate_similarity(t, Head(selected)[1])))

\* _greedy_optimization: (1 - diversity_weight) * relevance + diversity_weight *
\* diversity, units of 1/10000
DO_greedy_score(c, selected, w) ==
    (10 - w) * c[2] + w * (1000 - DO_min_similarity(c[1], selected, 1000))

\* a (track, score) pair as a DeepCutCandidate at exploration level 0
AsDeepCut(c) == [track |-> c[1], overall_score |-> c[2] * 2000]

\* the scores one pass of the inner for loop gives the remaining candidates
LoopScores(impl, selected, remaining, w) ==
    [i \in 1..Len(remaining) |->
        CASE impl = "mmr" -> DO_mmr_score(remaining[i], selected, w)
          [] impl = "greedy" -> DO_greedy_score(remaining[i], selected, w)
          [] impl = "hybrid" -> HY_mmr_score(remaining[i], selected, w, 1)
          [] impl = "se" -> SE_mmr_score(remaining[i], selected, w)
          [] impl = "deepcut" ->
                 diversity_adjusted_score(AsDeepCut(remaining[i]),
                     [j \in 1..Len(selected) |-> AsDeepCut(selected[j])], 0)]

\* the position the scan leaves in best_idx / best_item (0: none): best_score
\* starts at -inf in diversity_optimizer.py and at -1 in the other three
LoopBest(impl, scores) ==
    CASE impl \in {"mmr", "greedy"} -> FirstMaxIdx(scores)
      [] impl = "hybrid" -> ArgBest(scores, 1, -60000, 0)
      [] impl = "se" -> ArgBest(scores, 1, -10000, 0)
      [] impl = "deepcut" -> ArgBest(scores, 1, -20000000, 0)

\* the while condition
LoopCondition(impl, selected, remaining, total, limit) ==
    CASE impl = "mmr" -> remaining # <<>>
      [] impl \in {"greedy", "hybrid"} -> remaining # <<>> /\ Len(selected) < total
      [] impl \in {"se", "deepcut"} -> Len(selected) < limit /\ remaining # <<>>

\* the loops that have an else: break for a pass that found no candidate
LoopBreaks(impl) == impl \in {"se", "deepcut"}

LoopTracks == {1, 2, 4}
LoopRelevances == {-3000, 1000}
LoopLists ==
    UNION { { c \in [1..k -> LoopTracks \X LoopRelevances] :
                \A i, j \in 1..k : i # j => c[i][1] # c[j][1] } : k \in 0..MaxCand }
LoopWeights == {0, 3, 10, 20}
LoopLimits == {1, 10}

InitLoops ==
    /\ CatalogInit
    /\ dbOrder = <<1, 2, 3, 4, 5, 6, 7, 8>>
    /\ hashOrder = <<"rock", "pop", "jazz", "upbeat", "mellow">>
    /\ jobs = NoJobs
    /\ simStore = {}
    /\ cache = <<>>
    /\ prefs = DefaultPrefs
    /\ mmrIn \in [cands : LoopLists, lam : LoopWeights, n : LoopLimits]
    /\ mmrOut = [impl |-> "none", res |-> <<>>]
    /\ tkOut = [op |-> "none"]
    /\ recOut = [op |-> "none"]

\* entry of the function up to the while: [] for an empty list, else the first
\* element selected (the highest score in _mmr_optimization, position 0 elsewhere)
StartLoop(impl) ==
    /\ mmrOut.impl = "none"
    /\ LET cands == mmrIn.cands
           first == IF impl = "mmr"
                    THEN cands[FirstMaxIdx([i \in 1..Len(cands) |-> cands[i][2]])]
                    ELSE cands[1]
       IN mmrOut' = IF cands = <<>>
                    THEN [impl |-> impl, pc |-> "done", selected |-> <<>>,
                          remaining |-> <<>>, iterations |-> 0, res |-> <<>>]
                    ELSE [impl |-> impl, pc |-> "loop", selected |-> <<first>>,
                          remaining |-> ListRemove(cands, first), iterations |-> 0,
                          res |-> <<>>]
    /\ UNCHANGED <<features, artist, artistPlaycount, playcount, recent, hashOrder,
                   dbOrder, jobs, simStore, cache, prefs, mmrIn, tkOut, recOut>>

\* one iteration of the while loop
LoopIteration ==
    /\ mmrOut.impl \in LoopImpls
    /\ mmrOut.pc = "loop"
    /\ LoopCondition(mmrOut.impl, mmrOut.selected, mmrOut.remaining,
                     Len(mmrIn.cands), mmrIn.n)
    /\ mmrOut.iterations < MaxSteps
    /\ LET best == LoopBest(mmrOut.impl,
                            LoopScores(mmrOut.impl, mmrOut.selected, mmrOut.remaining,
                                       mmrIn.lam))
       IN mmrOut' =
              IF best >= 1
              THEN [mmrOut EXCEPT !.selected = Append(@, mmrOut.remaining[best]),
                                  !.remaining = RemoveAt(@, best),
                                  !.iterations = @ + 1]
              ELSE IF LoopBreaks(mmrOut.impl)
                   THEN [mmrOut EXCEPT !.pc = "done", !.res = mmrOut.selected,
                                       !.iterations = @ + 1]
                   ELSE [mmrOut EXCEPT !.iterations = @ + 1]
    /\ UNCHANGED <<features, artist, artistPlaycount, playcount, recent, hashOrder,
                   dbOrder, jobs, simStore, cache, prefs, mmrIn, tkOut, recOut>>

\* the while condition is false: return selected
LoopReturn ==
    /\ mmrOut.impl \in LoopImpls
    /\ mmrOut.pc = "loop"
    /\ ~LoopCondition(mmrOut.impl, mmrOut.selected, mmrOut.remaining,
                      Len(mmrIn.cands), mmrIn.n)
    /\ mmrOut' = [mmrOut EXCEPT !.pc = "done", !.res = mmrOut.selected]
    /\ UNCHANGED <<features, artist, artistPlaycount, playcount, recent, hashOrder,
                   dbOrder, jobs, simStore, cache, prefs, mmrIn, tkOut, recOut>>

NextLoops ==
    \/ \E impl \in LoopImpls : StartLoop(impl)
    \/ LoopIteration
    \/ LoopReturn

SpecLoops == InitLoops /\ [][NextLoops]_vars

\* C27: every greedy re-ranking loop terminates for every finite candidate list and
\* every combination of scores and weights: each iteration either moves exactly
\* one candidate from the remaining pool to the selected list or leaves the loop,
\* so a loop makes no more iterations than there are candidates.
C27_LoopsTerminate ==
    (mmrOut.impl \in LoopImpls) =>
        /\ mmrOut.iterations <= Len(mmrIn.cands)
        /\ mmrOut.pc = "loop" =>
               Len(mmrOut.selected) = mmrOut.iterations + 1


\* number of positions of seq holding x
CountOf(seq, x) == Cardinality({i \in 1..Len(seq) : seq[i] = x})

-----------------------------------------------------------------------------
(* Claims about the side of a stored row find_similar_tracks reads *)

\* the stored rows whose track_a is the seed
RowsOfSeed(seed) == {r \in simStore : r.track_a = seed}

\* C29: the precalculated path of find_similar_tracks reads only rows whose
\* track_a is the seed: every track it returns is the track_b of such a row with
\* that row's similarity, and for a seed that has no row as track_a (whatever rows
\* name it as track_b) the result is computed on the fly.
C29_OnlyRowsWithSeedAsTrackA ==
    (tkOut.op = "find" /\ ~tkOut.raised) =>
        /\ tkOut.path = "precalculated" =>
               \A i \in 1..Len(tkOut.res) :
                   \E r \in RowsOfSeed(tkOut.seed) :
                       /\ r.track_b = tkOut.res[i][1]
                       /\ r.combined_similarity = tkOut.res[i][2]
        /\ RowsOfSeed(tkOut.seed) = {} =>
               /\ tkOut.path # "precalculated"
               /\ tkOut.path = "computed" =>
                      tkOut.res = calculate_similarities_batch(tkOut.seed, tkOut.limit, tkOut.min)

\* a call for a seed that the store names as track_b only, with a row that
\* reaches min_similarity, answered on the fly
C29_Witness ==
    /\ tkOut.op = "find"
    /\ tkOut.path = "computed"
    /\ tkOut.res # <<>>
    /\ RowsOfSeed(tkOut.seed) = {}
    /\ \E r \in simStore : r.track_b = tkOut.seed /\ r.combined_similarity >= tkOut.min


-----------------------------------------------------------------------------
(* Specification SpecRepeat: find_similar_tracks after precalculate_similarities *)
(* over lists that hold a track at two positions                             *)

RepeatLists == { <<1, 2, 1>>, <<3, 3, 4>>, <<1, 2, 3>> }
RepeatSeeds == {1, 3}

NextRepeat ==
    \/ \E seed \in RepeatSeeds, limit \in Limits, m \in MinSims :
           FindSimilarTracks(seed, limit, m, "none")
    \/ \E tracks \in RepeatLists, b \in BatchSizes, m \in StoreMins :
           PrecalculateSimilarities(tracks, b, m)
    \/ \E key \in DOMAIN cache : CacheExpire(key)

SpecRepeat == InitPrecalc /\ [][NextRepeat]_vars

\* C30: the seed track never appears in its own find_similar_tracks result, on a
\* cache hit, from the stored rows or computed on the fly, after any sequence of
\* precalculate_similarities runs, runs over a list holding a track at two
\* positions included.
C30_SeedNotInOwnResult ==
    tkOut.op = "find" =>
        \A i \in 1..Len(tkOut.res) : tkOut.res[i][1] # tkOut.seed

====
